---- MODULE Spec2Model ----
(***************************************************************************)
(* A model of dbc's schema diff engine (internal/core/compare.go) over the *)
(* snapshot data model (internal/models), and of its driver protocol       *)
(* engine (internal/db/plugin.go) as runCapture uses it, together with the *)
(* drivers' schema extraction and request handling (drivers/), the         *)
(* settings of a capture (internal/core/config.go) and the snapshot store  *)
(* (SnapshotStorage).  Each part has its own specification; the variables  *)
(* of the other parts stay at their idle values in it.                     *)
(*                                                                         *)
(* Go values are represented as follows.                                   *)
(*   - a struct is a record with the struct's field names;                 *)
(*   - a slice that is only ranged over or measured with len() is a        *)
(*     sequence (a nil slice and an empty slice are both << >>);           *)
(*   - Index.Columns, the one slice handed to reflect.DeepEqual, is a      *)
(*     record [null, elems]: null is TRUE for a nil slice (JSON null or a  *)
(*     missing key) and FALSE for an allocated one (JSON [] or [...]);     *)
(*   - a pointer to a string or int64 is << >> for nil, <<v>> otherwise;   *)
(*   - a Go map built by "m[x.Name] = x" over a slice is a function from   *)
(*     the names to the LAST element carrying the name.                    *)
(* Row counts are small naturals: int64 subtraction never wraps on them.   *)
(***************************************************************************)
EXTENDS Integers, Sequences, FiniteSets, TLC

VARIABLES baseline, target, changeSet, pc

\* The state of a capture: the driver engine and the snapshot store.
VARIABLES environment, pd, handle, calls, xpc, proc, elapsed, err, snapshot, saved,
          ctx

\* What the database answers to a driver's catalog queries.
VARIABLES catalog

\* Calls made on one handle by several goroutines, and what its accessors
\* have returned.
VARIABLES inflight, observed

\* The command line and the environment of a capture, and the parameters it
\* sends with extract_schema.
VARIABLES argv, environ, params

\* An extract_schema request as a driver reads it, and what the driver
\* opens for it.
VARIABLES request, opened

\* The snapshot directory, the second of the clock, and what Load returned.
VARIABLES files, now, loaded

vars == <<baseline, target, changeSet, pc,
          environment, pd, handle, calls, xpc, proc, elapsed, err, snapshot, saved,
          ctx, catalog, inflight, observed, argv, environ, params,
          request, opened, files, now, loaded>>

auxVars ==
    <<catalog, inflight, observed, argv, environ, params, request, opened,
      files, now, loaded>>

engineVars ==
    <<environment, pd, handle, calls, xpc, proc, elapsed, err, snapshot, saved, ctx>>

(***************************************************************************)
(* Helpers for slices and name-keyed maps.                                 *)
(***************************************************************************)
Range(s) == {s[i] : i \in DOMAIN s}

Names(s) == {s[i].Name : i \in DOMAIN s}

\* The Go map  m := make(map[string]T); for _, x := range s { m[x.Name] = x }
NameMap(s) ==
    [n \in Names(s) |->
        s[CHOOSE i \in DOMAIN s :
            /\ s[i].Name = n
            /\ \A j \in DOMAIN s : j > i => s[j].Name # n]]

\* append(list, x)
Append1(list, x) == list \o <<x>>

(***************************************************************************)
(* Equality rules.                                                         *)
(***************************************************************************)
\* A variant that takes defaults for unequal only when both are present.
columnsEqual_BothPresentOnly(a, b) ==
    /\ a.Name = b.Name
    /\ a.ColumnType = b.ColumnType
    /\ a.IsNullable = b.IsNullable
    /\ a.Key = b.Key
    /\ ~(/\ a.DefaultValue # << >>
         /\ b.DefaultValue # << >>
         /\ a.DefaultValue[1] # b.DefaultValue[1])

\* A variant that also compares the ordinal position.
columnsEqual_WithPosition(a, b) ==
    /\ a.Name = b.Name
    /\ a.Position = b.Position
    /\ a.ColumnType = b.ColumnType
    /\ a.IsNullable = b.IsNullable
    /\ a.Key = b.Key
    /\ a.DefaultValue = b.DefaultValue

columnsEqual(a, b) ==
    /\ a.Name = b.Name
    /\ a.ColumnType = b.ColumnType
    /\ a.IsNullable = b.IsNullable
    /\ a.Key = b.Key
    /\ \/ (a.DefaultValue = << >> /\ b.DefaultValue = << >>)
       \/ (/\ a.DefaultValue # << >>
           /\ b.DefaultValue # << >>
           /\ a.DefaultValue[1] = b.DefaultValue[1])

\* A variant that compares the member columns as a set of names.
DeepEqualColumns_Unordered(x, y) ==
    /\ x.null = y.null
    /\ {x.elems[i].Name : i \in DOMAIN x.elems} = {y.elems[i].Name : i \in DOMAIN y.elems}

\* reflect.DeepEqual on two []IndexColumn: a nil slice is deeply equal only
\* to a nil slice; two non-nil slices are equal when they have the same
\* length and their elements are deeply equal in order.
DeepEqualColumns(x, y) ==
    IF x.null \/ y.null
    THEN x.null /\ y.null
    ELSE /\ Len(x.elems) = Len(y.elems)
         /\ \A i \in DOMAIN x.elems :
                /\ x.elems[i].Name = y.elems[i].Name
                /\ x.elems[i].Sequence = y.elems[i].Sequence
                /\ x.elems[i].Collation = y.elems[i].Collation

indexesEqual(a, b) ==
    IF \/ a.Name # b.Name
       \/ a.IsUnique # b.IsUnique
       \/ a.IsPrimary # b.IsPrimary
       \/ a.Type # b.Type
    THEN FALSE
    ELSE DeepEqualColumns(a.Columns, b.Columns)

foreignKeysEqual(a, b) ==
    /\ a.Name = b.Name
    /\ a.Column = b.Column
    /\ a.ReferencedTable = b.ReferencedTable
    /\ a.ReferencedColumn = b.ReferencedColumn
    /\ a.OnDelete = b.OnDelete
    /\ a.OnUpdate = b.OnUpdate

(***************************************************************************)
(* compareTables: the three-way classification of one entity kind.  The    *)
(* first loop ranges over the target slice, the second over the baseline.  *)
(***************************************************************************)
RECURSIVE ColumnsLoop(_, _, _, _)
ColumnsLoop(diff, baselineColumns, targetCols, i) ==
    IF i > Len(targetCols) THEN diff
    ELSE LET targetCol == targetCols[i] IN
         IF targetCol.Name \in DOMAIN baselineColumns
         THEN LET baselineCol == baselineColumns[targetCol.Name] IN
              IF ~columnsEqual(baselineCol, targetCol)
              THEN ColumnsLoop(
                     [diff EXCEPT !.ColumnsModified =
                        Append1(@, [Name |-> targetCol.Name,
                                    Before |-> baselineCol,
                                    After |-> targetCol])],
                     baselineColumns, targetCols, i + 1)
              ELSE ColumnsLoop(diff, baselineColumns, targetCols, i + 1)
         ELSE ColumnsLoop([diff EXCEPT !.ColumnsAdded = Append1(@, targetCol)],
                          baselineColumns, targetCols, i + 1)

RECURSIVE IndexesLoop(_, _, _, _)
IndexesLoop(diff, baselineIndexes, targetIdxs, i) ==
    IF i > Len(targetIdxs) THEN diff
    ELSE LET targetIdx == targetIdxs[i] IN
         IF targetIdx.Name \in DOMAIN baselineIndexes
         THEN LET baselineIdx == baselineIndexes[targetIdx.Name] IN
              IF ~indexesEqual(baselineIdx, targetIdx)
              THEN IndexesLoop(
                     [diff EXCEPT !.IndexesModified =
                        Append1(@, [Name |-> targetIdx.Name,
                                    Before |-> baselineIdx,
                                    After |-> targetIdx])],
                     baselineIndexes, targetIdxs, i + 1)
              ELSE IndexesLoop(diff, baselineIndexes, targetIdxs, i + 1)
         ELSE IndexesLoop([diff EXCEPT !.IndexesAdded = Append1(@, targetIdx)],
                          baselineIndexes, targetIdxs, i + 1)

RECURSIVE FKLoop(_, _, _, _)
FKLoop(diff, baselineFKs, targetFKList, i) ==
    IF i > Len(targetFKList) THEN diff
    ELSE LET targetFK == targetFKList[i] IN
         IF targetFK.Name \in DOMAIN baselineFKs
         THEN LET baselineFK == baselineFKs[targetFK.Name] IN
              IF ~foreignKeysEqual(baselineFK, targetFK)
              THEN FKLoop(
                     [diff EXCEPT !.FKModified =
                        Append1(@, [Name |-> targetFK.Name,
                                    Before |-> baselineFK,
                                    After |-> targetFK])],
                     baselineFKs, targetFKList, i + 1)
              ELSE FKLoop(diff, baselineFKs, targetFKList, i + 1)
         ELSE FKLoop([diff EXCEPT !.FKAdded = Append1(@, targetFK)],
                     baselineFKs, targetFKList, i + 1)

\* for _, x := range baselineList { if _, exists := targetMap[x.Name]; !exists { append } }
RemovedFrom(baselineList, targetMap) ==
    SelectSeq(baselineList, LAMBDA x : x.Name \notin DOMAIN targetMap)

\* A variant that subtracts the wrong way round.
RowCountChangeOf_Swapped(b, t) ==
    IF b.RowCount # t.RowCount THEN <<b.RowCount - t.RowCount>> ELSE << >>

\* A variant that records a change only when the table has grown.
RowCountChangeOf_GrowthOnly(b, t) ==
    IF b.RowCount < t.RowCount THEN <<t.RowCount - b.RowCount>> ELSE << >>

\* if baseline.RowCount != target.RowCount { change := target - baseline; diff.RowCountChange = &change }
RowCountChangeOf(b, t) ==
    IF b.RowCount # t.RowCount THEN <<t.RowCount - b.RowCount>> ELSE << >>

\* A variant without the guard on empty checksums.
ChecksumChangedOf_Unguarded(b, t) == b.Checksum # t.Checksum

\* if baseline.Checksum != "" && target.Checksum != "" { if differ { true } }
ChecksumChangedOf(b, t) ==
    /\ b.Checksum # ""
    /\ t.Checksum # ""
    /\ b.Checksum # t.Checksum

\* models.TableDiff{Name: baseline.Name}
NewTableDiff(name) ==
    [Name |-> name,
     ColumnsAdded |-> << >>, ColumnsRemoved |-> << >>, ColumnsModified |-> << >>,
     IndexesAdded |-> << >>, IndexesRemoved |-> << >>, IndexesModified |-> << >>,
     FKAdded |-> << >>, FKRemoved |-> << >>, FKModified |-> << >>,
     ConstraintsAdded |-> << >>, ConstraintsRemoved |-> << >>,
     RowCountChange |-> << >>, ChecksumChanged |-> FALSE]

compareTables(b, t) ==
    LET d0 == NewTableDiff(b.Name)
        d1 == ColumnsLoop(d0, NameMap(b.Columns), t.Columns, 1)
        d2 == [d1 EXCEPT !.ColumnsRemoved = RemovedFrom(b.Columns, NameMap(t.Columns))]
        d3 == IndexesLoop(d2, NameMap(b.Indexes), t.Indexes, 1)
        d4 == [d3 EXCEPT !.IndexesRemoved = RemovedFrom(b.Indexes, NameMap(t.Indexes))]
        d5 == FKLoop(d4, NameMap(b.ForeignKeys), t.ForeignKeys, 1)
        d6 == [d5 EXCEPT !.FKRemoved = RemovedFrom(b.ForeignKeys, NameMap(t.ForeignKeys))]
        d7 == [d6 EXCEPT !.RowCountChange = RowCountChangeOf(b, t)]
    IN  [d7 EXCEPT !.ChecksumChanged = ChecksumChangedOf(b, t)]

hasChanges(diff) ==
    \/ Len(diff.ColumnsAdded) > 0
    \/ Len(diff.ColumnsRemoved) > 0
    \/ Len(diff.ColumnsModified) > 0
    \/ Len(diff.IndexesAdded) > 0
    \/ Len(diff.IndexesRemoved) > 0
    \/ Len(diff.IndexesModified) > 0
    \/ Len(diff.FKAdded) > 0
    \/ Len(diff.FKRemoved) > 0
    \/ Len(diff.FKModified) > 0
    \/ diff.RowCountChange # << >>
    \/ diff.ChecksumChanged

(***************************************************************************)
(* CompareSnapshots.                                                       *)
(***************************************************************************)
\* &models.ChangeSet{Summary: models.ChangeSummary{}}
NewChangeSet ==
    [TablesAdded |-> << >>, TablesRemoved |-> << >>, TablesModified |-> << >>,
     Summary |-> [TablesAdded |-> 0, TablesRemoved |-> 0, TablesModified |-> 0,
                  HasChanges |-> FALSE]]

RECURSIVE TargetTablesLoop(_, _, _, _)
TargetTablesLoop(cs, baselineTables, targetTables, i) ==
    IF i > Len(targetTables) THEN cs
    ELSE LET targetTable == targetTables[i] IN
         IF targetTable.Name \in DOMAIN baselineTables
         THEN LET diff == compareTables(baselineTables[targetTable.Name], targetTable) IN
              IF hasChanges(diff)
              THEN TargetTablesLoop(
                     [cs EXCEPT !.TablesModified = Append1(@, diff),
                                !.Summary.TablesModified = @ + 1],
                     baselineTables, targetTables, i + 1)
              ELSE TargetTablesLoop(cs, baselineTables, targetTables, i + 1)
         ELSE TargetTablesLoop(
                [cs EXCEPT !.TablesAdded = Append1(@, targetTable),
                           !.Summary.TablesAdded = @ + 1],
                baselineTables, targetTables, i + 1)

\* A variant that collects the removed tables without counting them.
BaselineTablesLoop_Uncounted(cs, targetTables, baselineList, i) ==
    [cs EXCEPT !.TablesRemoved = RemovedFrom(baselineList, targetTables)]

RECURSIVE BaselineTablesLoop(_, _, _, _)
BaselineTablesLoop(cs, targetTables, baselineList, i) ==
    IF i > Len(baselineList) THEN cs
    ELSE LET baselineTable == baselineList[i] IN
         IF baselineTable.Name \notin DOMAIN targetTables
         THEN BaselineTablesLoop(
                [cs EXCEPT !.TablesRemoved = Append1(@, baselineTable),
                           !.Summary.TablesRemoved = @ + 1],
                targetTables, baselineList, i + 1)
         ELSE BaselineTablesLoop(cs, targetTables, baselineList, i + 1)

\* A variant that looks the baseline tables up in the baseline's own map.
CompareSnapshots_RemovedAgainstBaseline(b, t) ==
    LET cs1 == TargetTablesLoop(NewChangeSet, NameMap(b.Tables), t.Tables, 1)
    IN  BaselineTablesLoop(cs1, NameMap(b.Tables), b.Tables, 1)

CompareSnapshots(b, t) ==
    LET cs1 == TargetTablesLoop(NewChangeSet, NameMap(b.Tables), t.Tables, 1)
    IN  BaselineTablesLoop(cs1, NameMap(t.Tables), b.Tables, 1)

(***************************************************************************)
(* What a call of CompareSnapshots does besides returning a change set:    *)
(* what it leaves in its two arguments, and whether it panics.             *)
(***************************************************************************)
\* A variant that consumes the target's tables while ranging over them.
InputsAfterCompare_TargetDrained(b, t) == <<b, [t EXCEPT !.Tables = << >>]>>

\* The two snapshots as the call leaves them.  Every assignment and append
\* of CompareSnapshots and compareTables has as its destination changeSet,
\* diff, a local map or the local change: none writes through baseline or
\* target, and no slice of theirs is appended to or sorted.
InputsAfterCompare(b, t) == <<b, t>>

\* A variant that dereferences b.DefaultValue as soon as a.DefaultValue is
\* present.
columnsEqualPanics_HalfGuarded(a, b) ==
    /\ a.Name = b.Name
    /\ a.ColumnType = b.ColumnType
    /\ a.IsNullable = b.IsNullable
    /\ a.Key = b.Key
    /\ ~(a.DefaultValue = << >> /\ b.DefaultValue = << >>)
    /\ a.DefaultValue # << >>
    /\ b.DefaultValue = << >>

\* columnsEqual panics when it evaluates *a.DefaultValue == *b.DefaultValue
\* with a nil pointer.  && and || evaluate left to right and stop early:
\* the dereferences are reached when the four fields before them agree, the
\* both-nil test has failed and both non-nil tests have passed.
columnsEqualPanics(a, b) ==
    /\ a.Name = b.Name
    /\ a.ColumnType = b.ColumnType
    /\ a.IsNullable = b.IsNullable
    /\ a.Key = b.Key
    /\ ~(a.DefaultValue = << >> /\ b.DefaultValue = << >>)
    /\ a.DefaultValue # << >>
    /\ b.DefaultValue # << >>
    /\ (a.DefaultValue = << >> \/ b.DefaultValue = << >>)

\* compareTables calls columnsEqual on every target column whose name the
\* baseline has; indexesEqual and foreignKeysEqual dereference nothing
\* (reflect.DeepEqual takes nil slices), and ranging over or measuring a nil
\* slice is defined.
compareTablesPanics(b, t) ==
    \E i \in DOMAIN t.Columns :
        /\ t.Columns[i].Name \in Names(b.Columns)
        /\ columnsEqualPanics(NameMap(b.Columns)[t.Columns[i].Name], t.Columns[i])

\* CompareSnapshots calls compareTables on every target table whose name
\* the baseline has.
CompareSnapshotsPanics(b, t) ==
    \E i \in DOMAIN t.Tables :
        /\ t.Tables[i].Name \in Names(b.Tables)
        /\ compareTablesPanics(NameMap(b.Tables)[t.Tables[i].Name], t.Tables[i])

(***************************************************************************)
(* The snapshot data model (models.Column, Index, ForeignKey, Table,       *)
(* SchemaSnapshot) and the bounded universes the inputs are drawn from.    *)
(***************************************************************************)
MaxTables == 2

MaxRowCount == 2

Column(name, position, columnType, isNullable, defaultValue, key, extra) ==
    [Name |-> name, Position |-> position, DataType |-> columnType,
     ColumnType |-> columnType, IsNullable |-> isNullable,
     DefaultValue |-> defaultValue, Key |-> key, Extra |-> extra]

IndexColumn(name, sequence, collation) ==
    [Name |-> name, Sequence |-> sequence, Collation |-> collation]

Index(name, isUnique, isPrimary, type, columns) ==
    [Name |-> name, IsUnique |-> isUnique, IsPrimary |-> isPrimary,
     Type |-> type, Columns |-> columns]

ForeignKey(name, column, referencedTable, referencedColumn) ==
    [Name |-> name, Column |-> column, ReferencedTable |-> referencedTable,
     ReferencedColumn |-> referencedColumn, OnDelete |-> "", OnUpdate |-> ""]

Table(name, rowCount, checksum, columns, indexes, foreignKeys) ==
    [Name |-> name, RowCount |-> rowCount, Checksum |-> checksum,
     Columns |-> columns, Indexes |-> indexes, ForeignKeys |-> foreignKeys,
     Constraints |-> << >>, ExactRowCount |-> << >>]

SchemaSnapshot(tables) == [Tables |-> tables]

\* A nil []IndexColumn (JSON null) and an allocated one.
NullSlice == [null |-> TRUE, elems |-> << >>]

Slice(elems) == [null |-> FALSE, elems |-> elems]

\* The drivers list tables ORDER BY table_name.
TableNameOrder == <<"audit_log", "orders", "users">>

IdColumn == Column("id", 1, "int", FALSE, << >>, "PRI", "auto_increment")

\* getForeignKeys appends one entry per key column: a foreign key over two
\* columns is two entries with the same constraint name.
CompositeFK ==
    <<ForeignKey("fk_parent", "parent_a", "parents", "a"),
      ForeignKey("fk_parent", "parent_b", "parents", "b")>>

SimpleFK == <<ForeignKey("fk_parent", "parent_a", "parents", "a")>>

\* The sequence of the elements of order that are in P, each mapped by f.
OrderedBy(order, P, f) ==
    LET kept == SelectSeq(order, LAMBDA n : n \in P)
    IN  [i \in DOMAIN kept |-> f[kept[i]]]

\* Snapshots of at most MaxTables tables, one per name, in name order; the
\* tables of a name are Variants(name).
TableVariants(name) ==
    {Table(name, rc, "", <<IdColumn>>, << >>, fks) :
        rc \in 0..1, fks \in {<< >>, SimpleFK, CompositeFK}}

Snapshots ==
    UNION {
        {SchemaSnapshot(OrderedBy(TableNameOrder, P, f)) :
            f \in {g \in [P -> UNION {TableVariants(n) : n \in P}] :
                      \A n \in P : g[n].Name = n}} :
        P \in {Q \in SUBSET Range(TableNameOrder) : Cardinality(Q) <= MaxTables}}

(***************************************************************************)
(* The driver protocol engine (internal/db/plugin.go).  A driver is a      *)
(* separate executable; every call starts one subprocess, writes one       *)
(* request to its standard input and reads one response from its standard  *)
(* output.                                                                  *)
(*                                                                         *)
(* Bytes are represented by what the JSON decoder sees in them:            *)
(*   - a standard output is a record [form, success, data, error]: form    *)
(*     "empty" (no byte), "text" (bytes that are not JSON), "null" (the    *)
(*     JSON value null) or "object" (a JSON object with the given success, *)
(*     data and error members; an absent member is its Go zero value);     *)
(*   - a data member is a record [form, fields]: form "absent" (no data    *)
(*     member), "string" (a JSON string) or "object" with the object's     *)
(*     members as the record fields.                                       *)
(* An error is a record of its kind and of the diagnostic text formatted   *)
(* into it; the prefixes added by fmt.Errorf("...: %w") keep that text.    *)
(***************************************************************************)
\* const driverTimeout = 5 * time.Minute, in minutes.
driverTimeout == 5

MethodExtractSchema == "extract_schema"

MethodGetVersion == "get_version"

MethodGetFeatures == "get_features"

Methods == {MethodGetVersion, MethodGetFeatures, MethodExtractSchema}

NoData == [form |-> "absent", fields |-> [none |-> TRUE]]

StringData == [form |-> "string", fields |-> [none |-> TRUE]]

ObjectData(fields) == [form |-> "object", fields |-> fields]

EmptyOutput == [form |-> "empty", success |-> FALSE, data |-> NoData, error |-> ""]

TextOutput == [form |-> "text", success |-> FALSE, data |-> NoData, error |-> ""]

NullOutput == [form |-> "null", success |-> FALSE, data |-> NoData, error |-> ""]

\* writeResponse(data) of the drivers: {"success": true, "data": data}
SuccessEnvelope(data) ==
    [form |-> "object", success |-> TRUE, data |-> data, error |-> ""]

\* writeErrorResponse(errMsg) / writeError(errMsg) of the drivers:
\* {"success": false, "error": errMsg}
ErrorEnvelope(errMsg) ==
    [form |-> "object", success |-> FALSE, data |-> NoData, error |-> errMsg]

NoError == [kind |-> "none", stderr |-> "", output |-> EmptyOutput, message |-> ""]

\* fmt.Errorf("driver execution timed out after %v", driverTimeout)
TimeoutError ==
    [kind |-> "timeout", stderr |-> "", output |-> EmptyOutput, message |-> ""]

\* fmt.Errorf("driver execution failed: %w, stderr: %s", err, stderr.String())
ExecError(stderr) ==
    [kind |-> "exec", stderr |-> stderr, output |-> EmptyOutput, message |-> ""]

\* fmt.Errorf("failed to parse response: %w, output: %s", err, stdout.String())
ParseError(stdout) ==
    [kind |-> "parse", stderr |-> "", output |-> stdout, message |-> ""]

\* fmt.Errorf("driver returned error: %s", response.Error)
DriverError(message) ==
    [kind |-> "driver", stderr |-> "", output |-> EmptyOutput, message |-> message]

\* fmt.Errorf("failed to parse version response: %w", err) and its like for
\* the features and the schema.
DecodeError ==
    [kind |-> "decode", stderr |-> "", output |-> EmptyOutput, message |-> ""]

\* fmt.Errorf("driver executable '%s' not found", exeName)
NotFoundError ==
    [kind |-> "notfound", stderr |-> "", output |-> EmptyOutput, message |-> ""]

\* fmt.Errorf("failed to save snapshot: %w", err)
SaveError ==
    [kind |-> "save", stderr |-> "", output |-> EmptyOutput, message |-> ""]

\* json.Unmarshal(stdout.Bytes(), &response) into JSONRPCResponse: no byte,
\* bytes that are not JSON fail; null leaves response at its zero value; an
\* object fills the members it has.
UnmarshalResponse(stdout) ==
    IF stdout.form \in {"empty", "text"}
    THEN [ok |-> FALSE, Success |-> FALSE, Data |-> NoData, Error |-> ""]
    ELSE [ok |-> TRUE, Success |-> stdout.success, Data |-> stdout.data,
          Error |-> stdout.error]

\* What the subprocess of a call left behind: how it ended and what it wrote.
NoOutcome == [exitCode |-> 0, stdout |-> EmptyOutput, stderr |-> ""]

\* A variant that looks at the exit status before the deadline.
executeResult_ExitBeforeDeadline(procState, deadlineExceeded, outcome) ==
    IF procState = "exited" /\ outcome.exitCode # 0
    THEN [err |-> ExecError(outcome.stderr), response |-> NoData]
    ELSE IF procState # "exited"
    THEN [err |-> IF deadlineExceeded THEN TimeoutError ELSE ExecError(outcome.stderr),
          response |-> NoData]
    ELSE LET response == UnmarshalResponse(outcome.stdout) IN
         IF ~response.ok
         THEN [err |-> ParseError(outcome.stdout), response |-> NoData]
         ELSE IF ~response.Success
         THEN [err |-> DriverError(response.Error), response |-> NoData]
         ELSE [err |-> NoError, response |-> response.Data]

\* A variant that reads the envelope before the exit status.
executeResult_EnvelopeFirst(procState, deadlineExceeded, outcome) ==
    LET response == UnmarshalResponse(outcome.stdout) IN
    IF procState = "exited" /\ response.ok /\ response.Success
    THEN [err |-> NoError, response |-> response.Data]
    ELSE IF procState # "exited" \/ outcome.exitCode # 0
    THEN [err |-> IF deadlineExceeded THEN TimeoutError ELSE ExecError(outcome.stderr),
          response |-> NoData]
    ELSE IF ~response.ok
    THEN [err |-> ParseError(outcome.stdout), response |-> NoData]
    ELSE [err |-> DriverError(response.Error), response |-> NoData]

\* A variant that hands the data of a success:false envelope to the caller.
executeResult_DataOnFailure(procState, deadlineExceeded, outcome) ==
    IF procState # "exited" \/ outcome.exitCode # 0
    THEN [err |-> IF deadlineExceeded THEN TimeoutError ELSE ExecError(outcome.stderr),
          response |-> NoData]
    ELSE LET response == UnmarshalResponse(outcome.stdout) IN
         IF ~response.ok
         THEN [err |-> ParseError(outcome.stdout), response |-> NoData]
         ELSE [err |-> NoError, response |-> response.Data]

\* execute, from the return of cmd.Run() on: cmd.Run() returns an error
\* unless the subprocess was started and exited 0 (procState is "failed"
\* when it could not be started, "killed" when the context killed it);
\* ctx.Err() == context.DeadlineExceeded is read at that moment.  The value
\* is the (response data, error) pair the caller receives.
executeResult(procState, deadlineExceeded, outcome) ==
    IF procState # "exited" \/ outcome.exitCode # 0
    THEN [err |-> IF deadlineExceeded THEN TimeoutError ELSE ExecError(outcome.stderr),
          response |-> NoData]
    ELSE LET response == UnmarshalResponse(outcome.stdout) IN
         IF ~response.ok
         THEN [err |-> ParseError(outcome.stdout), response |-> NoData]
         ELSE IF ~response.Success
         THEN [err |-> DriverError(response.Error), response |-> NoData]
         ELSE [err |-> NoError, response |-> response.Data]

(***************************************************************************)
(* Responses of the three methods and their decoding by the host.          *)
(***************************************************************************)
FlagNames ==
    {"SupportsChecksums", "SupportsRowCounts", "SupportsIndexes",
     "SupportsForeignKeys", "SupportsConstraints"}

\* DriverFeatures{}: every flag false.
NoFeatures == [f \in FlagNames |-> FALSE]

\* The flags the drivers of the repository report.
AllFeatures == [f \in FlagNames |-> TRUE]

\* The flags of a driver that computes no checksum.
NoChecksumFeatures == [AllFeatures EXCEPT !["SupportsChecksums"] = FALSE]

\* handleGetVersion: {"name": driverName, "version": driverVersion}
VersionData(name, version) == ObjectData([name |-> name, version |-> version])

\* handleGetFeatures of the mysql driver: {"features": {flags}}
WrappedFeaturesData(flags) == ObjectData([features |-> flags])

\* handleGetFeatures of the sqlserver driver: {flags}
FlatFeaturesData(flags) == ObjectData(flags)

\* handleExtractSchema: the snapshot object itself
SnapshotData(schema) == ObjectData(schema)

\* The value json.Unmarshal leaves in a string field from member key of an
\* object: the member's value, or the field's zero value without the member.
Member(fields, key, zero) == IF key \in DOMAIN fields THEN fields[key] ELSE zero

\* json.Unmarshal(versionResp.Data, &versionData) into GetVersionResponse:
\* absent data and data of another JSON type fail.
DecodeVersion(data) ==
    IF data.form # "object"
    THEN [ok |-> FALSE, Version |-> ""]
    ELSE [ok |-> TRUE, Version |-> Member(data.fields, "version", "")]

\* json.Unmarshal(featuresResp.Data, &featuresData) into GetFeaturesResponse
\* {Features DriverFeatures `json:"features"`}: the flags are read from the
\* member "features"; without it Features stays DriverFeatures{}.
DecodeFeatures(data) ==
    IF data.form # "object"
    THEN [ok |-> FALSE, Features |-> NoFeatures]
    ELSE LET features == Member(data.fields, "features", NoFeatures)
         IN  [ok |-> TRUE,
              Features |-> [f \in FlagNames |-> Member(features, f, FALSE)]]

\* A variant that takes data of any JSON type for a snapshot.
DecodeSnapshot_Lenient(data) ==
    [ok |-> data.form # "absent",
     snapshot |-> [Tables |-> Member(data.fields, "Tables", << >>)]]

\* json.Unmarshal(response.Data, &snapshot) into models.SchemaSnapshot
DecodeSnapshot(data) ==
    IF data.form # "object"
    THEN [ok |-> FALSE, snapshot |-> [Tables |-> << >>]]
    ELSE [ok |-> TRUE, snapshot |-> [Tables |-> Member(data.fields, "Tables", << >>)]]

(***************************************************************************)
(* findDriverExecutable.  The environment is the set of locations that     *)
(* hold the driver's executable, and whether os.Executable() and           *)
(* os.UserHomeDir() succeed; a location whose directory cannot be          *)
(* determined holds nothing.                                               *)
(***************************************************************************)
LocationOrder == <<"bin", "exedir", "home", "cwd", "PATH">>

NoPath == ""

\* A variant that tries the working directory before the user's drivers.
findDriverExecutable_CwdBeforeHome(env) ==
    IF "bin" \in env.has THEN "bin"
    ELSE IF env.exeKnown /\ "exedir" \in env.has THEN "exedir"
    ELSE IF "cwd" \in env.has THEN "cwd"
    ELSE IF env.homeKnown /\ "home" \in env.has THEN "home"
    ELSE IF "PATH" \in env.has THEN "PATH"
    ELSE NoPath

findDriverExecutable(env) ==
    IF "bin" \in env.has THEN "bin"
    ELSE IF env.exeKnown /\ "exedir" \in env.has THEN "exedir"
    ELSE IF env.homeKnown /\ "home" \in env.has THEN "home"
    ELSE IF "cwd" \in env.has THEN "cwd"
    ELSE IF "PATH" \in env.has THEN "PATH"
    ELSE NoPath

Environments ==
    {e \in [has : SUBSET Range(LocationOrder), exeKnown : BOOLEAN, homeKnown : BOOLEAN] :
        /\ ~e.exeKnown => "exedir" \notin e.has
        /\ ~e.homeKnown => "home" \notin e.has}

NoEnvironment == [has |-> {}, exeKnown |-> FALSE, homeKnown |-> FALSE]

(***************************************************************************)
(* The drivers' schema extraction (drivers/*/schema.go), for one table.    *)
(* The catalog is what the database answers to the driver's queries: the   *)
(* rows of the table's columns, of its index members and of its foreign    *)
(* key columns.  The driver writes JSON objects; the host decodes them     *)
(* into the models by the json tags of the model's fields.                 *)
(***************************************************************************)
\* The injective sequences over all of S: the orders in which ranging over
\* a Go map with the key set S may visit it.
Orders(S) ==
    {f \in [1..Cardinality(S) -> S] : \A i, j \in DOMAIN f : f[i] = f[j] => i = j}

\* getColumns: one object per row of information_schema.columns.
getColumns(rows) ==
    [i \in DOMAIN rows |->
        [name |-> rows[i].column_name, position |-> rows[i].ordinal_position,
         column_type |-> rows[i].column_type, is_nullable |-> rows[i].is_nullable = "YES",
         key |-> rows[i].column_key, extra |-> rows[i].extra]]

\* getIndexes: indexMap holds one object per index name, indexColumns the
\* members of each in row order; the result ranges over indexMap in the
\* given order.
getIndexes(rows, order) ==
    [k \in DOMAIN order |->
        LET members == SelectSeq(rows, LAMBDA r : r.index_name = order[k])
        IN  [name |-> order[k],
             is_unique |-> members[1].non_unique = 0,
             is_primary |-> order[k] = "PRIMARY",
             type |-> members[1].index_type,
             columns |-> [i \in DOMAIN members |->
                             [name |-> members[i].column_name,
                              sequence |-> members[i].seq_in_index,
                              collation |-> members[i].collation]]]]

\* getForeignKeys: one object per row, that is per key column.  The mysql,
\* postgres, oracle and sqlserver drivers name the members name and column,
\* the sqlite driver constraint_name and column_name.
getForeignKeys(driver, rows) ==
    [i \in DOMAIN rows |->
        IF driver = "sqlite"
        THEN [constraint_name |-> rows[i].constraint_name,
              column_name |-> rows[i].column_name,
              referenced_table |-> rows[i].referenced_table_name,
              referenced_column |-> rows[i].referenced_column_name]
        ELSE [name |-> rows[i].constraint_name,
              column |-> rows[i].column_name,
              referenced_table |-> rows[i].referenced_table_name,
              referenced_column |-> rows[i].referenced_column_name]]

\* json.Unmarshal into models.Column, models.Index and models.ForeignKey.
DecodeColumn(o) ==
    Column(Member(o, "name", ""), Member(o, "position", 0),
           Member(o, "column_type", ""), Member(o, "is_nullable", FALSE),
           Member(o, "default_value", << >>), Member(o, "key", ""),
           Member(o, "extra", ""))

DecodeIndexColumn(o) ==
    IndexColumn(Member(o, "name", ""), Member(o, "sequence", 0),
                Member(o, "collation", ""))

DecodeIndex(o) ==
    Index(Member(o, "name", ""), Member(o, "is_unique", FALSE),
          Member(o, "is_primary", FALSE), Member(o, "type", ""),
          IF "columns" \in DOMAIN o
          THEN Slice([i \in DOMAIN o.columns |-> DecodeIndexColumn(o.columns[i])])
          ELSE NullSlice)

DecodeForeignKey(o) ==
    ForeignKey(Member(o, "name", ""), Member(o, "column", ""),
               Member(o, "referenced_table", ""), Member(o, "referenced_column", ""))

\* The table as the host decodes it from the driver's table object.
ExtractedTable(c, order) ==
    LET columns == getColumns(c.columns)
        indexes == getIndexes(c.statistics, order)
        foreignKeys == getForeignKeys(c.driver, c.key_column_usage)
    IN  Table("users", 0, "",
              [i \in DOMAIN columns |-> DecodeColumn(columns[i])],
              [i \in DOMAIN indexes |-> DecodeIndex(indexes[i])],
              [i \in DOMAIN foreignKeys |-> DecodeForeignKey(foreignKeys[i])])

\* Catalog rows.  The database keeps column names unique within a table,
\* index names unique within a table (one row per member column) and
\* constraint names unique within a table (one row per key column).
ColumnRow(name, position) ==
    [column_name |-> name, ordinal_position |-> position, column_type |-> "int",
     is_nullable |-> "NO", column_key |-> "", extra |-> ""]

StatisticsRow(index, seq, column) ==
    [index_name |-> index, non_unique |-> IF index = "PRIMARY" THEN 0 ELSE 1,
     seq_in_index |-> seq, column_name |-> column, collation |-> "A",
     index_type |-> "BTREE"]

KeyColumnRow(constraint, column, referencedColumn) ==
    [constraint_name |-> constraint, column_name |-> column,
     referenced_table_name |-> "parents", referenced_column_name |-> referencedColumn]

\* ORDER BY index_name, seq_in_index
StatisticsRows ==
    <<StatisticsRow("PRIMARY", 1, "id"),
      StatisticsRow("idx_parent", 1, "parent_a"),
      StatisticsRow("idx_parent", 2, "parent_b")>>

\* ORDER BY constraint_name
KeyColumnRows ==
    <<KeyColumnRow("fk_owner", "owner_id", "id"),
      KeyColumnRow("fk_parent", "parent_a", "a"),
      KeyColumnRow("fk_parent", "parent_b", "b")>>

\* The rows of any set of whole indexes, and of any set of whole
\* constraints.
StatisticsChoices ==
    {SelectSeq(StatisticsRows, LAMBDA r : r.index_name \in N) :
        N \in SUBSET {StatisticsRows[i].index_name : i \in DOMAIN StatisticsRows}}

KeyColumnChoices ==
    {SelectSeq(KeyColumnRows, LAMBDA r : r.constraint_name \in N) :
        N \in SUBSET {KeyColumnRows[i].constraint_name : i \in DOMAIN KeyColumnRows}}

Drivers == {"mysql", "postgres", "sqlite"}

\* Every indexed column and every key column is a column of the table.
Catalogs ==
    {c \in [driver : Drivers,
            columns : {<<ColumnRow("id", 1)>>,
                       <<ColumnRow("id", 1), ColumnRow("owner_id", 2),
                         ColumnRow("parent_a", 3), ColumnRow("parent_b", 4)>>},
            statistics : StatisticsChoices,
            key_column_usage : KeyColumnChoices] :
        \A r \in Range(c.statistics) \cup Range(c.key_column_usage) :
            \E col \in Range(c.columns) : col.column_name = r.column_name}

NoCatalog ==
    [driver |-> "", columns |-> << >>, statistics |-> << >>, key_column_usage |-> << >>]

(***************************************************************************)
(* What a driver subprocess may do with a request: any exit status, any    *)
(* standard output, any standard error.                                    *)
(***************************************************************************)
Stderrs == {"", "dial tcp: connection refused"}

DriverMessages == {"Failed to ping database: access denied"}

\* The snapshots a driver extracts: an empty schema, and one table.
CapturedSnapshots ==
    {SchemaSnapshot(<< >>),
     SchemaSnapshot(<<Table("users", 0, "", <<IdColumn>>, << >>, << >>)>>)}

DataFor(method) ==
    IF method = MethodGetVersion
    THEN {VersionData("mysql", "1.0.0"), NoData}
    ELSE IF method = MethodGetFeatures
    THEN {WrappedFeaturesData(AllFeatures), WrappedFeaturesData(NoChecksumFeatures),
          FlatFeaturesData(AllFeatures), StringData}
    ELSE {SnapshotData(s) : s \in CapturedSnapshots} \cup {StringData}

Stdouts(method) ==
    {EmptyOutput, TextOutput, NullOutput}
        \cup {ErrorEnvelope(m) : m \in DriverMessages}
        \cup {[ErrorEnvelope(m) EXCEPT !.data = d] :
                 m \in DriverMessages, d \in DataFor(method) \ {NoData, StringData}}
        \cup {SuccessEnvelope(d) : d \in DataFor(method)}

Outcomes(method) ==
    [exitCode : {0, 1}, stdout : Stdouts(method), stderr : Stderrs]

(***************************************************************************)
(* runCapture: NewPluginDriver (findDriverExecutable, initialize), then    *)
(* ExtractSchema, then SnapshotStorage.Save.  pc is the position in        *)
(* runCapture; while a driver call is being made it is the call's method.  *)
(* xpc is the position inside execute: "none" outside a call, "run" inside *)
(* cmd.Run(), "returned" between the return of cmd.Run() and the return of *)
(* execute.  proc is the state of the call's subprocess, elapsed the       *)
(* minutes since the call's context was created.                           *)
(***************************************************************************)
\* &PluginDriver{name: driverName, path: driverPath}
NewDriver(driverPath) ==
    [path |-> driverPath, version |-> "", features |-> NoFeatures]

NoDriver == NewDriver(NoPath)

EngineIdle ==
    /\ environment = NoEnvironment
    /\ pd = NoDriver
    /\ handle = << >>
    /\ calls = << >>
    /\ xpc = "none"
    /\ proc = "none"
    /\ elapsed = 0
    /\ err = NoError
    /\ snapshot = << >>
    /\ saved = << >>
    /\ ctx = "none"

\* The context of a call, context.WithTimeout(context.Background(),
\* driverTimeout): "live" until its deadline passes ("expired") or cancel is
\* called ("cancelled"); cancel on an expired context changes nothing.
expire(c, minutes) == IF c = "live" /\ minutes >= driverTimeout THEN "expired" ELSE c

\* A variant of the deferred call that leaves the context as it is.
cancel_Skipped(c) == c

\* defer cancel()
cancel(c) == IF c = "live" THEN "cancelled" ELSE c

\* The outcome of the subprocess of the call in progress.
Outcome == calls[Len(calls)].outcome

\* ctx.Err() == context.DeadlineExceeded
DeadlineExceeded == elapsed >= driverTimeout

\* NewPluginDriver: driverPath, err := findDriverExecutable(driverName)
Resolve ==
    /\ pc = "resolve"
    /\ LET driverPath == findDriverExecutable(environment) IN
       IF driverPath = NoPath
       THEN /\ pc' = "failed"
            /\ err' = NotFoundError
            /\ UNCHANGED pd
       ELSE /\ pc' = MethodGetVersion
            /\ pd' = NewDriver(driverPath)
            /\ UNCHANGED err
    /\ UNCHANGED <<auxVars, ctx, baseline, target, changeSet, environment, handle, calls, xpc,
                   proc, elapsed, snapshot, saved>>

\* execute up to cmd.Run(): the context is created and the subprocess is
\* started, or cannot be started and cmd.Run() returns at once.
StartCall ==
    /\ pc \in Methods
    /\ xpc = "none"
    /\ calls' = Append1(calls, [method |-> pc, outcome |-> NoOutcome])
    /\ elapsed' = 0
    /\ ctx' = "live"
    /\ \/ proc' = "running" /\ xpc' = "run"
       \/ proc' = "failed" /\ xpc' = "returned"
    /\ UNCHANGED <<auxVars, baseline, target, changeSet, pc, environment, pd, handle, err,
                   snapshot, saved>>

\* The subprocess writes its output and exits.
ProcExit ==
    /\ xpc = "run"
    /\ proc = "running"
    /\ \E o \in Outcomes(pc) :
          calls' = [calls EXCEPT ![Len(calls)].outcome = o]
    /\ proc' = "exited"
    /\ UNCHANGED <<auxVars, ctx, baseline, target, changeSet, pc, environment, pd, handle, xpc,
                   elapsed, err, snapshot, saved>>

\* A variant in which the context does not kill the subprocess.
Tick_NoKill ==
    /\ xpc # "none"
    /\ elapsed < driverTimeout
    /\ elapsed' = elapsed + 1
    /\ ctx' = expire(ctx, elapsed')
    /\ UNCHANGED <<auxVars, baseline, target, changeSet, pc, environment, pd, handle, calls,
                   xpc, proc, err, snapshot, saved>>

\* A minute passes during a call.  exec.CommandContext kills the subprocess
\* when the context's deadline passes while it is still running.
Tick ==
    /\ xpc # "none"
    /\ elapsed < driverTimeout
    /\ elapsed' = elapsed + 1
    /\ ctx' = expire(ctx, elapsed')
    /\ proc' = IF elapsed' >= driverTimeout /\ proc = "running" THEN "killed" ELSE proc
    /\ UNCHANGED <<auxVars, baseline, target, changeSet, pc, environment, pd, handle, calls,
                   xpc, err, snapshot, saved>>

\* cmd.Run() returns once the subprocess has ended.
RunReturns ==
    /\ xpc = "run"
    /\ proc \in {"exited", "killed"}
    /\ xpc' = "returned"
    /\ UNCHANGED <<auxVars, ctx, baseline, target, changeSet, pc, environment, pd, handle, calls,
                   proc, elapsed, err, snapshot, saved>>

\* initialize: the get_version call returns and its data is decoded.
VersionReturned ==
    /\ pc = MethodGetVersion
    /\ xpc = "returned"
    /\ LET versionResp == executeResult(proc, DeadlineExceeded, Outcome)
           versionData == DecodeVersion(versionResp.response)
       IN  IF versionResp.err # NoError
           THEN pc' = "failed" /\ err' = versionResp.err /\ UNCHANGED pd
           ELSE IF ~versionData.ok
           THEN pc' = "failed" /\ err' = DecodeError /\ UNCHANGED pd
           ELSE /\ pd' = [pd EXCEPT !.version = versionData.Version]
                /\ pc' = MethodGetFeatures
                /\ UNCHANGED err
    /\ xpc' = "none"
    /\ elapsed' = 0
    /\ ctx' = cancel(ctx)
    /\ UNCHANGED <<auxVars, baseline, target, changeSet, environment, handle, calls, proc,
                   snapshot, saved>>

\* initialize: the get_features call returns and its data is decoded;
\* NewPluginDriver returns pd.
FeaturesReturned ==
    /\ pc = MethodGetFeatures
    /\ xpc = "returned"
    /\ LET featuresResp == executeResult(proc, DeadlineExceeded, Outcome)
           featuresData == DecodeFeatures(featuresResp.response)
       IN  IF featuresResp.err # NoError
           THEN pc' = "failed" /\ err' = featuresResp.err /\ UNCHANGED <<pd, handle>>
           ELSE IF ~featuresData.ok
           THEN pc' = "failed" /\ err' = DecodeError /\ UNCHANGED <<pd, handle>>
           ELSE /\ pd' = [pd EXCEPT !.features = featuresData.Features]
                /\ handle' = <<pd'>>
                /\ pc' = MethodExtractSchema
                /\ UNCHANGED err
    /\ xpc' = "none"
    /\ elapsed' = 0
    /\ ctx' = cancel(ctx)
    /\ UNCHANGED <<auxVars, baseline, target, changeSet, environment, calls, proc, snapshot,
                   saved>>

\* ExtractSchema: the extract_schema call returns and its data is decoded.
SchemaReturned ==
    /\ pc = MethodExtractSchema
    /\ xpc = "returned"
    /\ LET response == executeResult(proc, DeadlineExceeded, Outcome)
           decoded == DecodeSnapshot(response.response)
       IN  IF response.err # NoError
           THEN pc' = "failed" /\ err' = response.err /\ UNCHANGED snapshot
           ELSE IF ~decoded.ok
           THEN pc' = "failed" /\ err' = DecodeError /\ UNCHANGED snapshot
           ELSE /\ snapshot' = <<decoded.snapshot>>
                /\ pc' = "save"
                /\ UNCHANGED err
    /\ xpc' = "none"
    /\ elapsed' = 0
    /\ ctx' = cancel(ctx)
    /\ UNCHANGED <<auxVars, baseline, target, changeSet, environment, pd, handle, calls, proc,
                   saved>>

\* storage.Save(snapshot): the file is written, or the write fails.
Save ==
    /\ pc = "save"
    /\ \/ saved' = Append1(saved, snapshot[1]) /\ pc' = "done" /\ UNCHANGED err
       \/ pc' = "failed" /\ err' = SaveError /\ UNCHANGED saved
    /\ UNCHANGED <<auxVars, ctx, baseline, target, changeSet, environment, pd, handle, calls, xpc,
                   proc, elapsed, snapshot>>

(***************************************************************************)
(* The settings of a capture (core/config.go, runCapture).  argv holds for  *)
(* each flag << >> when it is not on the command line and <<v>> when it is *)
(* given the value v; environ maps each variable to its text, "" when it   *)
(* is unset (os.Getenv).  A connection string is the sequence of the parts *)
(* fmt.Sprintf or url.URL.String() joins; the texts used need no escaping. *)
(***************************************************************************)
DefaultConfig ==
    [DBType |-> "mysql", Host |-> "localhost", Port |-> 3306, User |-> "root",
     Password |-> "", Database |-> "", OutputDir |-> "./db_snapshots",
     VerifyData |-> FALSE, VerifyRowCounts |-> TRUE, Workers |-> 10]

\* strconv.Atoi on the texts used: << >> when it fails.
Atoi(val) ==
    CASE val = "3307" -> <<3307>>
      [] val = "4" -> <<4>>
      [] val = "0" -> <<0>>
      [] OTHER -> << >>

\* The %d verb on the port numbers used.
FormatInt(n) ==
    CASE n = 3306 -> "3306"
      [] n = 3307 -> "3307"
      [] n = 5432 -> "5432"

\* strings.ToLower on the texts used.
ToLower(val) ==
    CASE val = "TRUE" -> "true"
      [] val = "False" -> "false"
      [] OTHER -> val

\* (c *Config) LoadFromEnv
LoadFromEnv(c, e) ==
    [c EXCEPT
        !.DBType = IF e.DB_TYPE # "" THEN e.DB_TYPE ELSE @,
        !.Host = IF e.DB_HOST # "" THEN e.DB_HOST ELSE @,
        !.Port = IF e.DB_PORT # "" /\ Atoi(e.DB_PORT) # << >>
                 THEN Atoi(e.DB_PORT)[1] ELSE @,
        !.User = IF e.DB_USER # "" THEN e.DB_USER ELSE @,
        !.Password = IF e.DB_PASSWORD # "" THEN e.DB_PASSWORD ELSE @,
        !.Database = IF e.DB_NAME # "" THEN e.DB_NAME ELSE @,
        !.OutputDir = IF e.DBC_OUTPUT_DIR # "" THEN e.DBC_OUTPUT_DIR ELSE @,
        !.VerifyData = IF e.DBC_VERIFY_DATA # ""
                       THEN ToLower(e.DBC_VERIFY_DATA) = "true" ELSE @,
        !.VerifyRowCounts = IF e.DBC_VERIFY_COUNTS # ""
                            THEN ToLower(e.DBC_VERIFY_COUNTS) = "true" ELSE @,
        !.Workers = IF e.DBC_WORKERS # "" /\ Atoi(e.DBC_WORKERS) # << >>
                       /\ Atoi(e.DBC_WORKERS)[1] > 0
                    THEN Atoi(e.DBC_WORKERS)[1] ELSE @]

\* The value of a flag after fs.Parse: the flag's default unless given.
FlagValue(given, default) == IF given = << >> THEN default ELSE given[1]

\* runCapture: the flag values written over the configuration.
FlagOverrides(c, a) ==
    [c EXCEPT
        !.DBType = IF FlagValue(a.dbtype, "") # "" THEN FlagValue(a.dbtype, "") ELSE @,
        !.Host = IF FlagValue(a.host, "") # "" THEN FlagValue(a.host, "") ELSE @,
        !.Port = IF FlagValue(a.port, 0) # 0 THEN FlagValue(a.port, 0) ELSE @,
        !.User = IF FlagValue(a.user, "") # "" THEN FlagValue(a.user, "") ELSE @,
        !.Password = IF FlagValue(a.password, "") # ""
                     THEN FlagValue(a.password, "") ELSE @,
        !.Database = IF FlagValue(a.database, "") # ""
                     THEN FlagValue(a.database, "") ELSE @,
        !.OutputDir = IF FlagValue(a.output, "") # "" THEN FlagValue(a.output, "") ELSE @,
        !.VerifyData = FlagValue(a.verifyData, FALSE),
        !.VerifyRowCounts = FlagValue(a.verifyCounts, TRUE),
        !.Workers = FlagValue(a.workers, 10)]

\* (c *Config) GetConnectionString, for mysql and sqlserver.
GetConnectionString(c) ==
    IF c.DBType = "mysql"
    THEN (IF c.Password # "" THEN <<c.User, ":", c.Password>> ELSE <<c.User>>)
            \o <<"@tcp(", c.Host, ":", FormatInt(c.Port), ")/", c.Database>>
    ELSE <<"sqlserver://">>
            \o (IF c.User = "" THEN << >>
                ELSE IF c.Password # "" THEN <<c.User, ":", c.Password, "@">>
                ELSE <<c.User, "@">>)
            \o <<c.Host, ":", FormatInt(c.Port), "?database=", c.Database>>

\* runCapture: db.ExtractParams as ExtractSchema sends them.
ExtractParams(c) ==
    [host |-> c.Host, port |-> c.Port, user |-> c.User, password |-> c.Password,
     database |-> c.Database, connection_string |-> GetConnectionString(c),
     verify_data |-> c.VerifyData, verify_row_counts |-> c.VerifyRowCounts,
     workers |-> c.Workers]

\* The command lines and environments considered.
Given(values) == {<< >>} \cup {<<v>> : v \in values}

CommandLines ==
    [dbtype : {<< >>}, host : Given({"db1"}), port : Given({5432}), user : {<< >>},
     password : {<< >>}, database : Given({"shop"}), output : {<< >>},
     verifyData : Given({TRUE}), verifyCounts : Given({FALSE}),
     workers : Given({2})]

Environs ==
    {[DB_TYPE |-> other[1], DB_HOST |-> host, DB_PORT |-> port, DB_USER |-> other[2],
      DB_PASSWORD |-> other[3], DB_NAME |-> name, DBC_OUTPUT_DIR |-> other[4],
      DBC_WORKERS |-> workers, DBC_VERIFY_DATA |-> data, DBC_VERIFY_COUNTS |-> counts] :
        other \in {<<"", "", "", "">>, <<"sqlserver", "app", "secret", "/var/dbc">>},
        host \in {"", "db2"}, port \in {"", "3307", "abc"}, name \in {"", "crm"},
        workers \in {"", "4", "0", "many"}, data \in {"", "TRUE"},
        counts \in {"", "False"}}

NoCommandLine ==
    [dbtype |-> << >>, host |-> << >>, port |-> << >>, user |-> << >>,
     password |-> << >>, database |-> << >>, output |-> << >>,
     verifyData |-> << >>, verifyCounts |-> << >>, workers |-> << >>]

NoEnviron ==
    [DB_TYPE |-> "", DB_HOST |-> "", DB_PORT |-> "", DB_USER |-> "",
     DB_PASSWORD |-> "", DB_NAME |-> "", DBC_OUTPUT_DIR |-> "", DBC_WORKERS |-> "",
     DBC_VERIFY_DATA |-> "", DBC_VERIFY_COUNTS |-> ""]

(***************************************************************************)
(* handleExtractSchema of the drivers (drivers/mysql/main.go,               *)
(* drivers/sqlserver/main.go) up to the connection string it opens.  The   *)
(* empty connection string is << >>.                                       *)
(***************************************************************************)
\* mysql: the connection string is formatted from the discrete members;
\* the connection_string member is not read.
handleExtractSchema_mysql(p) ==
    [ok |-> TRUE,
     connStr |-> <<Member(p, "user", "root"), ":", Member(p, "password", ""), "@tcp(",
                   Member(p, "host", "localhost"), ":",
                   FormatInt(Member(p, "port", 3306)), ")/",
                   Member(p, "database", "")>>,
     error |-> ""]

\* sqlserver: the connection_string member is required.
handleExtractSchema_sqlserver(p) ==
    IF Member(p, "connection_string", << >>) = << >>
    THEN [ok |-> FALSE, connStr |-> << >>, error |-> "connection_string is required"]
    ELSE [ok |-> TRUE, connStr |-> p.connection_string, error |-> ""]

handleExtractSchema(driver, p) ==
    IF driver = "mysql" THEN handleExtractSchema_mysql(p)
    ELSE handleExtractSchema_sqlserver(p)

\* The requests considered: the parameters runCapture sends for a
\* configuration, with the connection string it builds, with none, or with
\* one that names another server.
RequestConfigs ==
    {[DefaultConfig EXCEPT !.DBType = t, !.Host = h, !.Port = n, !.User = u,
                           !.Password = w, !.Database = d] :
        t \in {"mysql", "sqlserver"}, h \in {"localhost", "db1"}, n \in {3306, 3307},
        u \in {"root", "app"}, w \in {"", "secret"}, d \in {"shop", "crm"}}

ReplicaConnectionString == <<"app:secret@tcp(replica:3306)/shop">>

Requests ==
    UNION {{[driver |-> c.DBType,
             params |-> [ExtractParams(c) EXCEPT !.connection_string = s]] :
               s \in {GetConnectionString(c), << >>, ReplicaConnectionString}} :
           c \in RequestConfigs}

NoRequest == [driver |-> "", params |-> << >>]

NotOpened == [ok |-> FALSE, connStr |-> << >>, error |-> ""]

(***************************************************************************)
(* SnapshotStorage (core/html_template.go).  A key is the sequence of the  *)
(* texts its underscores separate ("prod_v2" is <<"prod", "v2">>); the     *)
(* file of a snapshot is named key_stamp.json, stamp being the capture's   *)
(* time as 20060102_150405, here the number of the second.                 *)
(***************************************************************************)
MaxSaves == 3

Keys == {<<"prod">>, <<"prod", "v2">>, <<"dev">>}

\* Save: the file written for a snapshot; a file of the same name is
\* replaced.
SaveFile(dir, snap) ==
    {f \in dir : ~(f.key = snap.Key /\ f.stamp = snap.Timestamp)}
        \cup {[key |-> snap.Key, stamp |-> snap.Timestamp, data |-> snap]}

\* The name of a file as the texts and the stamp its underscores separate.
NameParts(f) ==
    [i \in 1..(Len(f.key) + 1) |->
        IF i <= Len(f.key) THEN [text |-> f.key[i], stamp |-> 0]
        ELSE [text |-> "", stamp |-> f.stamp]]

\* The byte order of the texts used in keys.
TextRank(text) ==
    CASE text = "dev" -> 1
      [] text = "prod" -> 2
      [] text = "v2" -> 3

\* Byte order of two parts: a stamp is digits and sorts before a text,
\* stamps sort by their number.
PartLess(a, b) ==
    IF a.text = "" /\ b.text = "" THEN a.stamp < b.stamp
    ELSE IF a.text = "" THEN TRUE
    ELSE IF b.text = "" THEN FALSE
    ELSE TextRank(a.text) < TextRank(b.text)

\* sort.Strings order of two file names: the order of the first parts in
\* which they differ (no name is a prefix of another: all end in .json
\* after a stamp).
NameLess(f, g) ==
    LET p == NameParts(f)
        q == NameParts(g)
        differ == {i \in DOMAIN p \cap DOMAIN q : p[i] # q[i]}
    IN  /\ differ # {}
        /\ LET i == CHOOSE k \in differ : \A m \in differ : k <= m
           IN  PartLess(p[i], q[i])

\* filepath.Glob(key_*.json): the files whose name begins with the key and
\* an underscore.
Glob(dir, key) ==
    {f \in dir : Len(f.key) >= Len(key) /\ SubSeq(f.key, 1, Len(key)) = key}

NotFound == [err |-> "no snapshot found", snapshot |-> << >>]

\* Load: the last of the sorted matches.
Load(dir, key) ==
    LET matches == Glob(dir, key) IN
    IF matches = {} THEN NotFound
    ELSE LET latestFile == CHOOSE f \in matches : \A g \in matches : ~NameLess(f, g)
         IN  [err |-> "", snapshot |-> <<latestFile.data>>]

NotLoaded == [err |-> "", snapshot |-> << >>]

StoreIdle ==
    /\ files = {}
    /\ now = 0
    /\ loaded = [key |-> << >>, result |-> NotLoaded]

(***************************************************************************)
(* Several goroutines using one handle.  Each ExtractSchema call runs      *)
(* execute with its own request, context, command and output buffers, all  *)
(* local variables of the call; of the handle it reads pd.path.            *)
(***************************************************************************)
Callers == {"first", "second"}

IdleCall ==
    [xpc |-> "none", proc |-> "none", elapsed |-> 0, ctx |-> "none",
     outcome |-> NoOutcome, err |-> NoError, snapshot |-> << >>]

\* What the subprocesses of concurrent calls may do.
ConcurrentOutcomes ==
    [exitCode : {0, 1},
     stdout : {TextOutput}
                 \cup {ErrorEnvelope(m) : m \in DriverMessages}
                 \cup {SuccessEnvelope(SnapshotData(s)) : s \in CapturedSnapshots},
     stderr : {""}]

\* A variant in which the output buffer is one for all calls: every call
\* reads what the subprocess of the first caller has written.
stdoutOf_Shared(flights, c) ==
    [flights[c].outcome EXCEPT !.stdout = flights["first"].outcome.stdout]

\* var stdout, stderr bytes.Buffer: the buffers a call decodes are its own.
stdoutOf(flights, c) == flights[c].outcome

\* ExtractSchema as the caller c sees it return.
ExtractSchemaResult(flights, c) ==
    LET call == flights[c]
        response == executeResult(call.proc, call.elapsed >= driverTimeout,
                                  stdoutOf(flights, c))
        decoded == DecodeSnapshot(response.response)
    IN  IF response.err # NoError
        THEN [err |-> response.err, snapshot |-> << >>]
        ELSE IF ~decoded.ok
        THEN [err |-> DecodeError, snapshot |-> << >>]
        ELSE [err |-> NoError, snapshot |-> <<decoded.snapshot>>]

\* The handles NewPluginDriver returns.
Handles ==
    {[NewDriver("bin") EXCEPT !.version = "1.0.0", !.features = f] :
        f \in {AllFeatures, NoChecksumFeatures}}

\* Version() and SupportedFeatures()
Accessors(h) == [Version |-> h.version, SupportedFeatures |-> h.features]

\* The parts of the state a specification does not use stay as they are
\* here.
CatalogIdle == catalog = NoCatalog

ConcurrentIdle ==
    /\ inflight = [c \in Callers |-> IdleCall]
    /\ observed = {}

SettingsIdle ==
    /\ argv = NoCommandLine
    /\ environ = NoEnviron
    /\ params = << >>

ConnectIdle ==
    /\ request = NoRequest
    /\ opened = NotOpened

AuxIdle ==
    /\ CatalogIdle
    /\ ConcurrentIdle
    /\ SettingsIdle
    /\ ConnectIdle
    /\ StoreIdle

CaptureEnvironments ==
    {e \in Environments :
        e.exeKnown /\ e.homeKnown /\ e.has \in {{}, {"PATH"}, {"bin", "cwd"}}}

InitCaptureWith(E) ==
    /\ baseline = SchemaSnapshot(<< >>)
    /\ target = SchemaSnapshot(<< >>)
    /\ changeSet = NewChangeSet
    /\ pc = "resolve"
    /\ environment \in E
    /\ pd = NoDriver
    /\ handle = << >>
    /\ calls = << >>
    /\ xpc = "none"
    /\ proc = "none"
    /\ elapsed = 0
    /\ err = NoError
    /\ snapshot = << >>
    /\ saved = << >>
    /\ ctx = "none"
    /\ AuxIdle

InitCapture == InitCaptureWith(CaptureEnvironments)

NextCapture ==
    \/ Resolve
    \/ StartCall
    \/ ProcExit
    \/ Tick
    \/ RunReturns
    \/ VersionReturned
    \/ FeaturesReturned
    \/ SchemaReturned
    \/ Save

SpecCapture == InitCapture /\ [][NextCapture]_vars

\* The host's own steps are taken when they can be and time passes; nothing
\* obliges a driver subprocess to exit.
SpecCaptureFair ==
    /\ SpecCapture
    /\ WF_vars(Resolve)
    /\ WF_vars(StartCall)
    /\ WF_vars(Tick)
    /\ WF_vars(RunReturns)
    /\ WF_vars(VersionReturned)
    /\ WF_vars(FeaturesReturned)
    /\ WF_vars(SchemaReturned)
    /\ WF_vars(Save)

\* SpecDiscovery: the lookup alone, in every environment.
InitDiscovery == InitCaptureWith(Environments)

NextDiscovery == Resolve

SpecDiscovery == InitDiscovery /\ [][NextDiscovery]_vars

(***************************************************************************)
(* Extraction of one table: the driver queries the catalog and the host     *)
(* decodes the table it writes.                                            *)
(***************************************************************************)
InitExtract ==
    /\ baseline = SchemaSnapshot(<< >>)
    /\ target = SchemaSnapshot(<< >>)
    /\ changeSet = NewChangeSet
    /\ pc = "extract"
    /\ EngineIdle
    /\ catalog \in Catalogs
    /\ ConcurrentIdle
    /\ SettingsIdle
    /\ ConnectIdle
    /\ StoreIdle

ExtractTable ==
    /\ pc = "extract"
    /\ \E order \in Orders({catalog.statistics[i].index_name :
                                i \in DOMAIN catalog.statistics}) :
            snapshot' = <<SchemaSnapshot(<<ExtractedTable(catalog, order)>>)>>
    /\ pc' = "extracted"
    /\ UNCHANGED <<auxVars, ctx, baseline, target, changeSet, environment, pd, handle, calls,
                   xpc, proc, elapsed, err, saved>>

NextExtract == ExtractTable

SpecExtract == InitExtract /\ [][NextExtract]_vars

(***************************************************************************)
(* Concurrent use of a handle.                                             *)
(***************************************************************************)
InitConcurrent ==
    /\ baseline = SchemaSnapshot(<< >>)
    /\ target = SchemaSnapshot(<< >>)
    /\ changeSet = NewChangeSet
    /\ pc = "concurrent"
    /\ environment = [has |-> {"bin"}, exeKnown |-> TRUE, homeKnown |-> TRUE]
    /\ pd \in Handles
    /\ handle = <<pd>>
    /\ calls = << >>
    /\ xpc = "none"
    /\ proc = "none"
    /\ elapsed = 0
    /\ err = NoError
    /\ snapshot = << >>
    /\ saved = << >>
    /\ ctx = "none"
    /\ AuxIdle

\* execute up to cmd.Run() in the call of c.
ExtractStart(c) ==
    /\ pc = "concurrent"
    /\ inflight[c].xpc = "none"
    /\ \/ inflight' = [inflight EXCEPT ![c].xpc = "run", ![c].proc = "running",
                                         ![c].ctx = "live"]
       \/ inflight' = [inflight EXCEPT ![c].xpc = "returned", ![c].proc = "failed",
                                         ![c].ctx = "live"]
    /\ UNCHANGED <<baseline, target, changeSet, pc, engineVars, catalog, observed,
                   argv, environ, params, request, opened, files, now, loaded>>

\* The subprocess of c's call writes its output and exits.
ExtractProcExit(c) ==
    /\ inflight[c].xpc = "run"
    /\ inflight[c].proc = "running"
    /\ \E o \in ConcurrentOutcomes :
          inflight' = [inflight EXCEPT ![c].proc = "exited", ![c].outcome = o]
    /\ UNCHANGED <<baseline, target, changeSet, pc, engineVars, catalog, observed,
                   argv, environ, params, request, opened, files, now, loaded>>

\* A minute of c's call passes.
ExtractTick(c) ==
    /\ inflight[c].xpc \in {"run", "returned"}
    /\ inflight[c].elapsed < driverTimeout
    /\ LET minutes == inflight[c].elapsed + 1 IN
       inflight' = [inflight EXCEPT
                       ![c].elapsed = minutes,
                       ![c].ctx = expire(@, minutes),
                       ![c].proc = IF minutes >= driverTimeout /\ @ = "running"
                                   THEN "killed" ELSE @]
    /\ UNCHANGED <<baseline, target, changeSet, pc, engineVars, catalog, observed,
                   argv, environ, params, request, opened, files, now, loaded>>

\* cmd.Run() of c's call returns.
ExtractRunReturns(c) ==
    /\ inflight[c].xpc = "run"
    /\ inflight[c].proc \in {"exited", "killed"}
    /\ inflight' = [inflight EXCEPT ![c].xpc = "returned"]
    /\ UNCHANGED <<baseline, target, changeSet, pc, engineVars, catalog, observed,
                   argv, environ, params, request, opened, files, now, loaded>>

\* ExtractSchema returns to c.
ExtractReturns(c) ==
    /\ inflight[c].xpc = "returned"
    /\ LET result == ExtractSchemaResult(inflight, c) IN
       inflight' = [inflight EXCEPT ![c].xpc = "done", ![c].ctx = cancel(@),
                                     ![c].err = result.err,
                                     ![c].snapshot = result.snapshot]
    /\ UNCHANGED <<baseline, target, changeSet, pc, engineVars, catalog, observed,
                   argv, environ, params, request, opened, files, now, loaded>>

\* A goroutine calls Version() and SupportedFeatures().
ReadAccessors ==
    /\ pc = "concurrent"
    /\ observed' = observed \cup {Accessors(handle[1])}
    /\ UNCHANGED <<baseline, target, changeSet, pc, engineVars, catalog, inflight,
                   argv, environ, params, request, opened, files, now, loaded>>

NextConcurrent ==
    \/ \E c \in Callers : ExtractStart(c)
    \/ \E c \in Callers : ExtractProcExit(c)
    \/ \E c \in Callers : ExtractTick(c)
    \/ \E c \in Callers : ExtractRunReturns(c)
    \/ \E c \in Callers : ExtractReturns(c)
    \/ ReadAccessors

SpecConcurrent == InitConcurrent /\ [][NextConcurrent]_vars

(***************************************************************************)
(* runCapture up to the parameters of ExtractSchema.                       *)
(***************************************************************************)
InitSettings ==
    /\ baseline = SchemaSnapshot(<< >>)
    /\ target = SchemaSnapshot(<< >>)
    /\ changeSet = NewChangeSet
    /\ pc = "configure"
    /\ EngineIdle
    /\ CatalogIdle
    /\ ConcurrentIdle
    /\ argv \in CommandLines
    /\ environ \in Environs
    /\ params = << >>
    /\ ConnectIdle
    /\ StoreIdle

\* cfg := DefaultConfig(); cfg.LoadFromEnv(); the flags; the database test;
\* the parameters.
Configure ==
    /\ pc = "configure"
    /\ LET cfg == FlagOverrides(LoadFromEnv(DefaultConfig, environ), argv) IN
       IF cfg.Database = ""
       THEN pc' = "failed" /\ UNCHANGED params
       ELSE pc' = "configured" /\ params' = <<ExtractParams(cfg)>>
    /\ UNCHANGED <<baseline, target, changeSet, engineVars, catalog, inflight, observed,
                   argv, environ, request, opened, files, now, loaded>>

NextSettings == Configure

SpecSettings == InitSettings /\ [][NextSettings]_vars

(***************************************************************************)
(* A driver handling one extract_schema request.                           *)
(***************************************************************************)
InitConnect ==
    /\ baseline = SchemaSnapshot(<< >>)
    /\ target = SchemaSnapshot(<< >>)
    /\ changeSet = NewChangeSet
    /\ pc = "request"
    /\ EngineIdle
    /\ CatalogIdle
    /\ ConcurrentIdle
    /\ SettingsIdle
    /\ request \in Requests
    /\ opened = NotOpened
    /\ StoreIdle

HandleRequest ==
    /\ pc = "request"
    /\ opened' = handleExtractSchema(request.driver, request.params)
    /\ pc' = "handled"
    /\ UNCHANGED <<baseline, target, changeSet, engineVars, catalog, inflight, observed,
                   argv, environ, params, request, files, now, loaded>>

NextConnect == HandleRequest

SpecConnect == InitConnect /\ [][NextConnect]_vars

(***************************************************************************)
(* Captures saved one after another into one directory, then a Load.      *)
(***************************************************************************)
InitStore ==
    /\ baseline = SchemaSnapshot(<< >>)
    /\ target = SchemaSnapshot(<< >>)
    /\ changeSet = NewChangeSet
    /\ pc = "store"
    /\ EngineIdle
    /\ CatalogIdle
    /\ ConcurrentIdle
    /\ SettingsIdle
    /\ ConnectIdle
    /\ StoreIdle

\* A capture under the key is saved a second or more after the one before.
SaveSnapshot(key) ==
    /\ pc = "store"
    /\ now < MaxSaves
    /\ now' = now + 1
    /\ files' = SaveFile(files, [Key |-> key, Timestamp |-> now'])
    /\ UNCHANGED <<baseline, target, changeSet, pc, engineVars, catalog, inflight,
                   observed, argv, environ, params, request, opened, loaded>>

\* storage.Load(key)
LoadSnapshot(key) ==
    /\ pc = "store"
    /\ loaded' = [key |-> key, result |-> Load(files, key)]
    /\ pc' = "loaded"
    /\ UNCHANGED <<baseline, target, changeSet, engineVars, catalog, inflight, observed,
                   argv, environ, params, request, opened, files, now>>

NextStore ==
    \/ \E key \in Keys : SaveSnapshot(key)
    \/ \E key \in Keys : LoadSnapshot(key)

SpecStore == InitStore /\ [][NextStore]_vars

(***************************************************************************)
(* runCompare: the two snapshots are loaded, then compared.                *)
(***************************************************************************)
InitWith(S) ==
    /\ baseline \in S
    /\ target \in S
    /\ changeSet = NewChangeSet
    /\ pc = "loaded"
    /\ EngineIdle
    /\ AuxIdle

Init == InitWith(Snapshots)

\* changeSet := core.CompareSnapshots(snapshot1, snapshot2).  A panic in the
\* call ends the process with no change set.
Compare ==
    /\ pc = "loaded"
    /\ UNCHANGED <<engineVars, auxVars>>
    /\ IF CompareSnapshotsPanics(baseline, target)
       THEN /\ pc' = "panicked"
            /\ UNCHANGED <<baseline, target, changeSet>>
       ELSE /\ changeSet' = CompareSnapshots(baseline, target)
            /\ baseline' = InputsAfterCompare(baseline, target)[1]
            /\ target' = InputsAfterCompare(baseline, target)[2]
            /\ pc' = "compared"

Next == Compare

Spec == Init /\ [][Next]_vars

(***************************************************************************)
(* SpecAttrs: one table, users, in both snapshots; its row count, checksum *)
(* and foreign keys vary.                                                  *)
(***************************************************************************)
Checksums == {"", "1001", "2002"}

AttrTables ==
    {Table("users", rc, ck, <<IdColumn>>, << >>, fks) :
        rc \in 0..MaxRowCount, ck \in Checksums, fks \in {<< >>, CompositeFK}}

AttrSnapshots == {SchemaSnapshot(<<t>>) : t \in AttrTables}

InitAttrs == InitWith(AttrSnapshots)

SpecAttrs == InitAttrs /\ [][Next]_vars

(***************************************************************************)
(* SpecColumns: one table, users, with the one column email; every field   *)
(* of the column varies.                                                   *)
(***************************************************************************)
EmailColumns ==
    {Column("email", position, columnType, isNullable, defaultValue, key, extra) :
        position \in {1, 2}, columnType \in {"varchar(64)", "text"},
        isNullable \in BOOLEAN, defaultValue \in {<< >>, <<"">>, <<"none">>},
        key \in {"", "UNI"}, extra \in {"", "on update"}}

ColumnTables ==
    {Table("users", 0, "", <<c>>, << >>, fks) :
        c \in EmailColumns, fks \in {<< >>, CompositeFK}}

ColumnSnapshots == {SchemaSnapshot(<<t>>) : t \in ColumnTables}

InitColumns == InitWith(ColumnSnapshots)

SpecColumns == InitColumns /\ [][Next]_vars

(***************************************************************************)
(* SpecIndexes: one table, users, with the one index idx_users; the flags  *)
(* and the member columns of the index vary.  A member list names each     *)
(* column once and numbers the members in list order, as getIndexes does.  *)
(***************************************************************************)
MemberNames == {"email", "tenant"}

MemberLists ==
    UNION {
        {[i \in DOMAIN order |-> IndexColumn(order[i], i, coll[i])] :
            coll \in [DOMAIN order -> {"A", "D"}]} :
        order \in {<< >>, <<"email">>, <<"tenant">>,
                   <<"email", "tenant">>, <<"tenant", "email">>}}

IndexColumnSlices == {NullSlice} \cup {Slice(l) : l \in MemberLists}

UsersIndexes ==
    {Index("idx_users", isUnique, isPrimary, type, columns) :
        isUnique \in BOOLEAN, isPrimary \in BOOLEAN,
        type \in {"BTREE", "HASH"}, columns \in IndexColumnSlices}

IndexTables == {Table("users", 0, "", <<IdColumn>>, <<ix>>, << >>) : ix \in UsersIndexes}

IndexSnapshots == {SchemaSnapshot(<<t>>) : t \in IndexTables}

InitIndexes == InitWith(IndexSnapshots)

SpecIndexes == InitIndexes /\ [][Next]_vars

(***************************************************************************)
(* SpecEntities: one table, users, in both snapshots; its columns, indexes *)
(* and foreign keys come and go and change.                                *)
(***************************************************************************)
ColumnOrder == <<"id", "email", "phone">>

ColumnVariants(name) ==
    IF name = "id" THEN {IdColumn}
    ELSE IF name = "email"
    THEN {Column("email", 2, "varchar(64)", FALSE, << >>, "", ""),
          Column("email", 2, "text", FALSE, << >>, "", "")}
    ELSE {Column("phone", 3, "varchar(16)", TRUE, << >>, "", "")}

ColumnLists ==
    UNION {
        {OrderedBy(ColumnOrder, P, f) :
            f \in {g \in [P -> UNION {ColumnVariants(n) : n \in P}] :
                      \A n \in P : g[n].Name = n}} :
        P \in SUBSET Range(ColumnOrder)}

EmailIndex(isUnique) ==
    Index("idx_email", isUnique, FALSE, "BTREE",
          Slice(<<IndexColumn("email", 1, "A")>>))

IndexLists == {<< >>, <<EmailIndex(FALSE)>>, <<EmailIndex(TRUE)>>}

ForeignKeyLists ==
    {<< >>, SimpleFK, <<ForeignKey("fk_parent", "parent_a", "parents", "id")>>,
     CompositeFK}

EntityTables ==
    {Table("users", 0, "", cols, idxs, fks) :
        cols \in ColumnLists, idxs \in IndexLists, fks \in ForeignKeyLists}

EntitySnapshots == {SchemaSnapshot(<<t>>) : t \in EntityTables}

InitEntities == InitWith(EntitySnapshots)

SpecEntities == InitEntities /\ [][Next]_vars

(***************************************************************************)
(* SpecConstraints: one table, users, in both snapshots; its constraints   *)
(* and its columns come and go.                                            *)
(***************************************************************************)
Constraint(name, type) == [Name |-> name, Type |-> type]

ConstraintOrder == <<"chk_age", "pk_users", "uq_email">>

\* getConstraints: one entry per constraint of the table, by name.
ConstraintOf ==
    [n \in Range(ConstraintOrder) |->
        Constraint(n, IF n = "chk_age" THEN "CHECK"
                      ELSE IF n = "pk_users" THEN "PRIMARY KEY" ELSE "UNIQUE")]

ConstraintLists ==
    {OrderedBy(ConstraintOrder, P, ConstraintOf) : P \in SUBSET Range(ConstraintOrder)}

ConstraintTables ==
    {[Table("users", 0, "", cols, << >>, << >>) EXCEPT !.Constraints = cons] :
        cols \in {<<IdColumn>>,
                  <<IdColumn, Column("email", 2, "varchar(64)", FALSE, << >>, "", "")>>},
        cons \in ConstraintLists}

ConstraintSnapshots == {SchemaSnapshot(<<t>>) : t \in ConstraintTables}

InitConstraints == InitWith(ConstraintSnapshots)

SpecConstraints == InitConstraints /\ [][Next]_vars

(***************************************************************************)
(* SpecAbsent: snapshots with no table or one table, users, whose          *)
(* collections, default values, checksum and exact row count are present   *)
(* or absent.                                                              *)
(***************************************************************************)
Defaults == {<< >>, <<"">>, <<"n/a">>}

AbsentColumnLists ==
    {<< >>} \cup {<<Column("email", 1, "varchar(64)", TRUE, dv, "", "")>> : dv \in Defaults}

AbsentIndexLists ==
    {<< >>, <<Index("idx_email", FALSE, FALSE, "BTREE", NullSlice)>>}

AbsentTables ==
    {[Table("users", 0, ck, cols, idxs, fks) EXCEPT !.ExactRowCount = exact] :
        ck \in {"", "1001"}, cols \in AbsentColumnLists, idxs \in AbsentIndexLists,
        fks \in {<< >>, SimpleFK}, exact \in {<< >>, <<0>>}}

AbsentSnapshots ==
    {SchemaSnapshot(<< >>)} \cup {SchemaSnapshot(<<t>>) : t \in AbsentTables}

InitAbsent == InitWith(AbsentSnapshots)

SpecAbsent == InitAbsent /\ [][Next]_vars

(***************************************************************************)
(* SpecSymmetry: the users table in both snapshots with its row count,     *)
(* checksum, email column, email index and foreign keys varying, and an    *)
(* orders table that comes and goes and grows.                             *)
(***************************************************************************)
SymmetryColumnLists ==
    {<<IdColumn>>} \cup
    {<<IdColumn, Column("email", 2, ct, FALSE, dv, "", "")>> :
        ct \in {"varchar(64)"}, dv \in {<< >>, <<"n/a">>}}

SymmetryTables ==
    {Table("users", rc, ck, cols, <<EmailIndex(u)>>, fks) :
        rc \in {0, 1}, ck \in Checksums, cols \in SymmetryColumnLists,
        u \in BOOLEAN,
        fks \in {SimpleFK, <<ForeignKey("fk_parent", "parent_a", "parents", "id")>>,
                 CompositeFK}}

OrdersTables == {Table("orders", rc, "", <<IdColumn>>, << >>, << >>) : rc \in {0, 1}}

\* Tables in name order: orders before users.
SymmetrySnapshots ==
    {SchemaSnapshot(<<t>>) : t \in SymmetryTables} \cup
    {SchemaSnapshot(<<o, t>>) : o \in OrdersTables, t \in SymmetryTables}

InitSymmetry == InitWith(SymmetrySnapshots)

SpecSymmetry == InitSymmetry /\ [][Next]_vars

(***************************************************************************)
(* Claims about CompareSnapshots on whole snapshots (specification Spec).  *)
(***************************************************************************)
Compared == pc = "compared"

\* The TableDiff collections of d that are all empty in an unchanged table.
DiffHasEntries(d) ==
    \/ d.ColumnsAdded # << >> \/ d.ColumnsRemoved # << >> \/ d.ColumnsModified # << >>
    \/ d.IndexesAdded # << >> \/ d.IndexesRemoved # << >> \/ d.IndexesModified # << >>
    \/ d.FKAdded # << >> \/ d.FKRemoved # << >> \/ d.FKModified # << >>

\* C1: comparing a snapshot with itself yields no added, no removed and no
\* modified table, and the three table counts of Summary are 0.
C1_SelfCompareEmpty ==
    (Compared /\ baseline = target) =>
        /\ changeSet.TablesAdded = << >>
        /\ changeSet.TablesRemoved = << >>
        /\ changeSet.TablesModified = << >>
        /\ changeSet.Summary.TablesAdded = 0
        /\ changeSet.Summary.TablesRemoved = 0
        /\ changeSet.Summary.TablesModified = 0

\* C2: TablesAdded is exactly the target tables absent from baseline,
\* TablesRemoved exactly the baseline tables absent from target; a table in
\* both is in TablesModified iff its TableDiff has a non-empty collection, a
\* row-count delta or a checksum mismatch; an identical table is in none of
\* the three collections.
C2_TableClassification ==
    Compared =>
        /\ Range(changeSet.TablesAdded) =
              {t \in Range(target.Tables) : t.Name \notin Names(baseline.Tables)}
        /\ Range(changeSet.TablesRemoved) =
              {b \in Range(baseline.Tables) : b.Name \notin Names(target.Tables)}
        /\ \A b \in Range(baseline.Tables), t \in Range(target.Tables) :
              b.Name = t.Name =>
                LET d == compareTables(b, t) IN
                /\ (t.Name \in Names(changeSet.TablesModified)) <=>
                      (DiffHasEntries(d) \/ d.RowCountChange # << >> \/ d.ChecksumChanged)
                /\ b = t =>
                      /\ t.Name \notin Names(changeSet.TablesModified)
                      /\ t.Name \notin Names(changeSet.TablesAdded)
                      /\ t.Name \notin Names(changeSet.TablesRemoved)

\* C4: the table names added by compare(A, B) are the table names removed by
\* compare(B, A), and the names removed by compare(A, B) are the names added
\* by compare(B, A).
C4_AddedRemovedInverse ==
    Compared =>
        LET reverse == CompareSnapshots(target, baseline) IN
        /\ Names(changeSet.TablesAdded) = Names(reverse.TablesRemoved)
        /\ Names(changeSet.TablesRemoved) = Names(reverse.TablesAdded)

C4_Witness ==
    /\ Compared
    /\ changeSet.TablesAdded # << >>
    /\ changeSet.TablesRemoved # << >>
    /\ Names(changeSet.TablesAdded) # Names(changeSet.TablesRemoved)

(***************************************************************************)
(* Claims about one table present in both snapshots.                       *)
(***************************************************************************)
\* The pairs (baseline table, target table) of one name.
TablePairs ==
    {<<b, t>> \in Range(baseline.Tables) \X Range(target.Tables) : b.Name = t.Name}

\* The TableDiffs the change set holds for a table name.
ModifiedDiffs(name) == {d \in Range(changeSet.TablesModified) : d.Name = name}

\* Three-way classification of one entity kind, keyed by name.
Classified(baselineList, targetList, added, removed, modified, Equal(_, _)) ==
    /\ Range(added) = {y \in Range(targetList) : y.Name \notin Names(baselineList)}
    /\ Range(removed) = {x \in Range(baselineList) : x.Name \notin Names(targetList)}
    /\ \A m \in Range(modified) :
          /\ m.Before \in Range(baselineList)
          /\ m.After \in Range(targetList)
          /\ m.Name = m.Before.Name /\ m.Name = m.After.Name
    /\ \A x \in Range(baselineList), y \in Range(targetList) :
          x.Name = y.Name =>
            ((\E m \in Range(modified) : m.Before = x /\ m.After = y) <=> ~Equal(x, y))

\* C3: in the TableDiff of a table present in both snapshots, columns,
\* indexes and foreign keys are each classified by name into Added (only in
\* target), Removed (only in baseline) and Modified (in both and unequal,
\* Before the baseline value, After the target value); when the target only
\* adds a column, TablesModified is one TableDiff whose ColumnsAdded is that
\* column and whose other collections are empty.
C3_EntityClassification ==
    Compared =>
        \A p \in TablePairs :
            LET b == p[1]
                t == p[2]
                d == compareTables(b, t)
            IN  /\ ModifiedDiffs(t.Name) \subseteq {d}
                /\ Classified(b.Columns, t.Columns, d.ColumnsAdded,
                              d.ColumnsRemoved, d.ColumnsModified, columnsEqual)
                /\ Classified(b.Indexes, t.Indexes, d.IndexesAdded,
                              d.IndexesRemoved, d.IndexesModified, indexesEqual)
                /\ Classified(b.ForeignKeys, t.ForeignKeys, d.FKAdded,
                              d.FKRemoved, d.FKModified, foreignKeysEqual)
                /\ \A c \in Range(t.Columns) :
                      (c.Name \notin Names(b.Columns)
                         /\ t = [b EXCEPT !.Columns = Append1(@, c)]) =>
                      changeSet.TablesModified =
                          <<[NewTableDiff(b.Name) EXCEPT !.ColumnsAdded = <<c>>]>>

\* Whether the change set reports entity name as modified, per kind.
ColumnReported(table, name) ==
    \E d \in ModifiedDiffs(table) : name \in Names(d.ColumnsModified)

IndexReported(table, name) ==
    \E d \in ModifiedDiffs(table) : name \in Names(d.IndexesModified)

\* Two same-named columns that agree on type, nullability and key-role tag.
AgreeButDefault(x, y) ==
    /\ x.Name = y.Name
    /\ x.ColumnType = y.ColumnType
    /\ x.IsNullable = y.IsNullable
    /\ x.Key = y.Key

BothDefaultsDiffer(x, y) ==
    /\ x.DefaultValue # << >>
    /\ y.DefaultValue # << >>
    /\ x.DefaultValue[1] # y.DefaultValue[1]

OneDefaultAbsent(x, y) == (x.DefaultValue = << >>) # (y.DefaultValue = << >>)

\* C5 as stated: a column pair that agrees on name, type, nullability and
\* key-role tag is reported in ColumnsModified only when both default values
\* are present and different.
C5_ReportedOnlyIfBothDefaultsDiffer ==
    Compared =>
        \A p \in TablePairs :
            \A x \in Range(p[1].Columns), y \in Range(p[2].Columns) :
                (AgreeButDefault(x, y) /\ ColumnReported(p[2].Name, y.Name)) =>
                    BothDefaultsDiffer(x, y)

\* C5 amended: a column pair that agrees on name, type, nullability and
\* key-role tag is reported in ColumnsModified exactly when both defaults are
\* present and different or exactly one of them is absent; two absent
\* defaults are equal.
C5_ReportedIffDefaultsDiffer ==
    Compared =>
        \A p \in TablePairs :
            \A x \in Range(p[1].Columns), y \in Range(p[2].Columns) :
                AgreeButDefault(x, y) =>
                    (ColumnReported(p[2].Name, y.Name) <=>
                        (BothDefaultsDiffer(x, y) \/ OneDefaultAbsent(x, y)))

C5_Witness ==
    /\ Compared
    /\ \E p \in TablePairs :
          \E x \in Range(p[1].Columns), y \in Range(p[2].Columns) :
              /\ AgreeButDefault(x, y)
              /\ x.DefaultValue = << >>
              /\ y.DefaultValue # << >>
              /\ ColumnReported(p[2].Name, y.Name)

\* The column x with the ordinal position and the extra text of y.
WithPositionAndExtra(x, y) == [x EXCEPT !.Position = y.Position, !.Extra = y.Extra]

\* The target table with every column given the position and extra text of
\* the baseline column of its name.
PositionsRestored(b, t) ==
    [t EXCEPT !.Columns =
        [i \in DOMAIN t.Columns |->
            IF t.Columns[i].Name \in Names(b.Columns)
            THEN WithPositionAndExtra(t.Columns[i], NameMap(b.Columns)[t.Columns[i].Name])
            ELSE t.Columns[i]]]

\* C6: a column that differs between baseline and target only in Position
\* or Extra is not reported in ColumnsModified, and the difference does not
\* decide whether the table is in TablesModified: the table is reported
\* exactly when it would be with the baseline's positions and extra texts,
\* and a TableDiff retained for tables that differ in nothing else records
\* no column change.
C6_PositionAndExtraIgnored ==
    Compared =>
        \A p \in TablePairs :
            /\ \A x \in Range(p[1].Columns), y \in Range(p[2].Columns) :
                  (x.Name = y.Name /\ x # y /\ WithPositionAndExtra(x, y) = y) =>
                      ~ColumnReported(p[2].Name, y.Name)
            /\ (p[2].Name \in Names(changeSet.TablesModified)) <=>
                  hasChanges(compareTables(p[1], PositionsRestored(p[1], p[2])))
            /\ \A d \in ModifiedDiffs(p[2].Name) :
                  PositionsRestored(p[1], p[2]) = p[1] =>
                      /\ d.ColumnsAdded = << >>
                      /\ d.ColumnsRemoved = << >>
                      /\ d.ColumnsModified = << >>

C6_Witness ==
    /\ Compared
    /\ \E p \in TablePairs :
          /\ p[1].ForeignKeys = << >>
          /\ \E x \in Range(p[1].Columns), y \in Range(p[2].Columns) :
                /\ x.Name = y.Name
                /\ x.Position # y.Position
                /\ x.Extra # y.Extra
                /\ WithPositionAndExtra(x, y) = y
          /\ changeSet.TablesModified = << >>

\* The member column names of an index, in list order.
MemberSeq(ix) == [i \in DOMAIN ix.Columns.elems |-> ix.Columns.elems[i].Name]

\* Same member columns, listed in a different order.
Reordered(x, y) ==
    /\ x.Name = y.Name
    /\ Range(MemberSeq(x)) = Range(MemberSeq(y))
    /\ Len(MemberSeq(x)) = Len(MemberSeq(y))
    /\ MemberSeq(x) # MemberSeq(y)

\* C7: an index with the same name and the same set of member columns in
\* baseline and target, listed in a different order, is reported in
\* IndexesModified.
C7_ReorderedIndexReported ==
    Compared =>
        \A p \in TablePairs :
            \A x \in Range(p[1].Indexes), y \in Range(p[2].Indexes) :
                Reordered(x, y) => IndexReported(p[2].Name, y.Name)

C7_Witness ==
    /\ Compared
    /\ \E p \in TablePairs :
          \E x \in Range(p[1].Indexes), y \in Range(p[2].Indexes) :
              /\ Reordered(x, y)
              /\ x.IsUnique = y.IsUnique /\ x.IsPrimary = y.IsPrimary /\ x.Type = y.Type
              /\ \A i \in DOMAIN x.Columns.elems :
                    x.Columns.elems[i].Collation = y.Columns.elems[i].Collation
              /\ IndexReported(p[2].Name, y.Name)

\* C8: two same-named indexes that agree on the uniqueness flag, the primary
\* flag and the method tag and have the same ordered sequence of member
\* columns are not reported in IndexesModified, whether an empty member list
\* was stored as null or as an empty list.
C8_SameIndexNotReported ==
    Compared =>
        \A p \in TablePairs :
            \A x \in Range(p[1].Indexes), y \in Range(p[2].Indexes) :
                (/\ x.Name = y.Name
                 /\ x.IsUnique = y.IsUnique
                 /\ x.IsPrimary = y.IsPrimary
                 /\ x.Type = y.Type
                 /\ x.Columns.elems = y.Columns.elems) =>
                    ~IndexReported(p[2].Name, y.Name)

\* C9: for a table in both snapshots RowCountChange is set exactly when the
\* row counts differ; its value is target minus baseline, never 0, positive
\* iff the target count is larger; a table differing in its row count is in
\* TablesModified.
C9_RowCountChange ==
    Compared =>
        \A p \in TablePairs :
            LET b == p[1]
                t == p[2]
            IN  /\ (compareTables(b, t).RowCountChange # << >>) <=> (b.RowCount # t.RowCount)
                /\ b.RowCount # t.RowCount =>
                      /\ ModifiedDiffs(t.Name) # {}
                      /\ \A d \in ModifiedDiffs(t.Name) :
                            /\ d.RowCountChange = <<t.RowCount - b.RowCount>>
                            /\ d.RowCountChange[1] # 0
                            /\ (d.RowCountChange[1] > 0) <=> (t.RowCount > b.RowCount)
                /\ b.RowCount = t.RowCount =>
                      \A d \in ModifiedDiffs(t.Name) : d.RowCountChange = << >>

C9_Witness ==
    /\ Compared
    /\ \E p \in TablePairs :
          /\ p[1].RowCount > p[2].RowCount
          /\ [p[1] EXCEPT !.RowCount = p[2].RowCount] = p[2]
          /\ p[1].ForeignKeys = << >>
          /\ \E d \in ModifiedDiffs(p[2].Name) :
                d.RowCountChange # << >> /\ d.RowCountChange[1] < 0

\* C10: ChecksumChanged is true iff both tables carry a non-empty checksum
\* and the two differ; when either checksum is missing the flag is false, a
\* TableDiff is retained only for another recorded change, and the table is
\* in TablesModified exactly when it would be with no checksum on either
\* side.
C10_ChecksumChanged ==
    Compared =>
        \A p \in TablePairs :
            LET b == p[1]
                t == p[2]
                bothDiffer == b.Checksum # "" /\ t.Checksum # "" /\ b.Checksum # t.Checksum
            IN  /\ compareTables(b, t).ChecksumChanged <=> bothDiffer
                /\ bothDiffer => ModifiedDiffs(t.Name) # {}
                /\ \A d \in ModifiedDiffs(t.Name) :
                      /\ d.ChecksumChanged <=> bothDiffer
                      /\ (b.Checksum = "" \/ t.Checksum = "") =>
                            (DiffHasEntries(d) \/ d.RowCountChange # << >>)
                /\ (b.Checksum = "" \/ t.Checksum = "") =>
                      ((t.Name \in Names(changeSet.TablesModified)) <=>
                          hasChanges(compareTables([b EXCEPT !.Checksum = ""],
                                                   [t EXCEPT !.Checksum = ""])))

C10_Witness ==
    /\ Compared
    /\ \E p \in TablePairs :
          /\ p[1].Checksum # "" /\ p[2].Checksum # "" /\ p[1].Checksum # p[2].Checksum
          /\ [p[1] EXCEPT !.Checksum = p[2].Checksum] = p[2]
          /\ p[1].ForeignKeys = << >>
          /\ \E d \in ModifiedDiffs(p[2].Name) : d.ChecksumChanged

(***************************************************************************)
(* Claims about constraints (specification SpecConstraints).               *)
(***************************************************************************)
\* C11: when a constraint is in one snapshot's table and not in the other's,
\* the table is reported as modified and its TableDiff lists the constraint:
\* in ConstraintsAdded when only the target has it, in ConstraintsRemoved
\* when only the baseline has it.
C11_ConstraintChangesReported ==
    Compared =>
        \A p \in TablePairs :
            \A c \in Range(p[1].Constraints) \cup Range(p[2].Constraints) :
                LET added == c.Name \notin Names(p[1].Constraints)
                    removed == c.Name \notin Names(p[2].Constraints)
                IN  (added \/ removed) =>
                        \E d \in ModifiedDiffs(p[1].Name) :
                            /\ added => c \in Range(d.ConstraintsAdded)
                            /\ removed => c \in Range(d.ConstraintsRemoved)

C13_CompareSnapshotsTotal ==
    [][pc = "loaded" => pc' = "compared"]_vars

\* C13 witness: a call has returned for a pair of users tables with no index,
\* no foreign key, no checksum and no exact row count where only the
\* baseline's column has a default value.
C13_Witness ==
    /\ Compared
    /\ \E p \in TablePairs :
          /\ p[1].Indexes = << >> /\ p[1].ForeignKeys = << >>
          /\ p[1].Checksum = "" /\ p[1].ExactRowCount = << >>
          /\ p[1].Columns # << >> /\ p[2].Columns # << >>
          /\ p[1].Columns[1].DefaultValue # << >>
          /\ p[2].Columns[1].DefaultValue = << >>

(***************************************************************************)
(* Claims about the driver protocol engine (specifications SpecCapture,    *)
(* SpecCaptureFair and SpecDiscovery).                                     *)
(***************************************************************************)
\* The call in progress returns in this step.
CallReturns == xpc = "returned" /\ xpc' = "none"

\* C14: a subprocess that is still running when the 5 minutes of its call
\* have passed is killed, and the call then returns the timeout error and
\* ends the capture; no subprocess is running once its call has returned,
\* a call being made always returns, and after a timeout nothing is saved.
C14_TimeoutKillsAndFails ==
    /\ [][/\ (proc = "running" /\ elapsed' >= driverTimeout) => proc' = "killed"
          /\ (CallReturns /\ proc = "killed") =>
                (err' = TimeoutError /\ pc' = "failed" /\ handle' = handle)]_vars
    /\ [](xpc = "none" => proc # "running")
    /\ [](err = TimeoutError => (saved = << >> /\ snapshot = << >>))
    /\ ((xpc = "run" /\ proc = "running") ~> (xpc = "none"))

\* C14 witness: a call has returned the timeout error after its subprocess
\* was killed.
C14_Witness ==
    /\ xpc = "none"
    /\ proc = "killed"
    /\ err = TimeoutError
    /\ pc = "failed"

\* The subprocess of the call in progress ended by itself with this status.
ExitedWith(code) == proc = "exited" /\ Outcome.exitCode = code

C16_DriverErrorCarriesMessage ==
    [][(/\ CallReturns
        /\ proc = "exited"
        /\ Outcome.stdout.form = "object"
        /\ ~Outcome.stdout.success) =>
            /\ pc' = "failed"
            /\ err' = DriverError(Outcome.stdout.error)
            /\ UNCHANGED <<pd, handle, snapshot, saved>>]_vars

\* The methods of the driver calls made so far, in order.
MethodsCalled == [i \in DOMAIN calls |-> calls[i].method]

\* The subprocess of the i-th call exited 0 with a success:true envelope
\* whose data is a JSON object.
Answered(i) ==
    /\ i \in DOMAIN calls
    /\ calls[i].outcome.exitCode = 0
    /\ calls[i].outcome.stdout.form = "object"
    /\ calls[i].outcome.stdout.success
    /\ calls[i].outcome.stdout.data.form = "object"

\* C17: until NewPluginDriver has returned a handle the driver calls made are
\* get_version and then get_features, at most one of each, and none when no
\* executable was found; get_features is called only after get_version was
\* answered with decodable data; a handle exists only when both calls were
\* answered with decodable data, and a construction that failed has left an
\* error and no handle.
C17_ConstructionCalls ==
    /\ handle = << >> =>
          MethodsCalled \in {<< >>, <<MethodGetVersion>>,
                             <<MethodGetVersion, MethodGetFeatures>>}
    /\ pd.path = NoPath => calls = << >>
    /\ Len(calls) >= 2 => Answered(1)
    /\ handle # << >> =>
          /\ SubSeq(MethodsCalled, 1, 2) = <<MethodGetVersion, MethodGetFeatures>>
          /\ Answered(1)
          /\ Answered(2)
          /\ handle[1].path = findDriverExecutable(environment)
          /\ handle[1].path # NoPath
    /\ (pc = "failed" /\ ~(Answered(1) /\ Answered(2))) =>
          (handle = << >> /\ err # NoError)

\* C17 witness: NewPluginDriver has returned a handle after exactly the two
\* calls.
C17_Witness ==
    /\ handle # << >>
    /\ MethodsCalled = <<MethodGetVersion, MethodGetFeatures>>
    /\ pc = MethodExtractSchema
    /\ xpc = "none"

\* The flags a get_features response carries, whether the driver wrote them
\* as the data object itself or under its member "features".
ReportedFeatures(data) ==
    LET flags == IF "features" \in DOMAIN data.fields
                 THEN data.fields.features ELSE data.fields
    IN  [f \in FlagNames |-> Member(flags, f, FALSE)]

\* C18: the handle NewPluginDriver returns holds the five flags the driver
\* reported in its get_features response (SupportedFeatures()) and the
\* version it reported in its get_version response (Version()).
C18_HandleHoldsReportedValues ==
    handle # << >> =>
        /\ handle[1].features = ReportedFeatures(calls[2].outcome.stdout.data)
        /\ handle[1].version = calls[1].outcome.stdout.data.fields.version

\* C19: the lookup returns the first of ./bin, the running executable's
\* directory, ~/.dbc/drivers/<name>/, the working directory and the PATH
\* that holds the driver executable: a location is returned only when it
\* holds the executable and no location before it does, and the lookup
\* fails with the not-found error exactly when no location holds it.
C19_FirstLocationWins ==
    pc # "resolve" =>
        /\ \A i \in DOMAIN LocationOrder :
              pd.path = LocationOrder[i] <=>
                  /\ LocationOrder[i] \in environment.has
                  /\ \A j \in 1..(i - 1) : LocationOrder[j] \notin environment.has
        /\ (pc = "failed" /\ err = NotFoundError /\ pd.path = NoPath)
              <=> environment.has = {}
        /\ environment.has # {} => (pd.path # NoPath /\ err # NotFoundError)

\* C19 witness: the executable is in the user's drivers directory, the
\* working directory and the PATH, and the lookup has returned the user's
\* drivers directory.
C19_Witness ==
    /\ pc = MethodGetVersion
    /\ environment.has = {"home", "cwd", "PATH"}
    /\ pd.path = "home"

\* C20: Save is reached only with a handle from NewPluginDriver and a
\* snapshot decoded from an answered extract_schema call, after exactly the
\* three calls; what is saved is that one snapshot; no method is ever called
\* twice; and a capture that has failed makes no further call and saves
\* nothing, neither before the failure nor after it.
C20_SaveOnlyAfterSuccess ==
    /\ [](MethodsCalled \in
            {SubSeq(<<MethodGetVersion, MethodGetFeatures, MethodExtractSchema>>, 1, n) :
                n \in 0..Cardinality(Methods)})
    /\ []((pc \in {"save", "done"} \/ saved # << >> \/ err = SaveError) =>
            /\ handle # << >>
            /\ Len(calls) = Cardinality(Methods)
            /\ \A i \in DOMAIN calls : Answered(i)
            /\ snapshot = <<[Tables |-> calls[Len(calls)].outcome.stdout.data.fields.Tables]>>
            /\ saved \in {<< >>, snapshot})
    /\ [](pc = "failed" => (saved = << >> /\ err # NoError /\ xpc = "none"))
    /\ [][pc = "failed" => UNCHANGED <<pc, calls, proc, err, saved>>]_vars
    /\ [][(CallReturns /\ executeResult(proc, DeadlineExceeded, Outcome).err # NoError) =>
            (pc' = "failed" /\ calls' = calls /\ saved' = << >>)]_vars

\* C20 witness: a capture has saved the one-table snapshot its driver
\* extracted.
C20_Witness ==
    /\ pc = "done"
    /\ saved # << >>
    /\ saved[1].Tables # << >>

(***************************************************************************)
(* Claims about the two directions of a comparison (specification          *)
(* SpecSymmetry) and about the summary (specification Spec).               *)
(***************************************************************************)
\* No two elements of the list carry the same name.
UniqueNames(list) ==
    \A i, j \in DOMAIN list : list[i].Name = list[j].Name => i = j

\* Tables, and within each table columns, indexes and foreign keys, are
\* unique by name.
UniqueByName(s) ==
    /\ UniqueNames(s.Tables)
    /\ \A t \in Range(s.Tables) :
          /\ UniqueNames(t.Columns)
          /\ UniqueNames(t.Indexes)
          /\ UniqueNames(t.ForeignKeys)

\* The modified entries of a list with Before and After exchanged.
Swapped(modified) ==
    {[Name |-> m.Name, Before |-> m.After, After |-> m.Before] : m \in Range(modified)}

\* The row-count delta of one direction is the negation of the other's.
Negated(x, y) ==
    \/ x = << >> /\ y = << >>
    \/ x # << >> /\ y # << >> /\ x[1] = 0 - y[1]

\* C24: for snapshots unique by name, compare(A, B) and compare(B, A) report
\* the same modified table names, and for each of them the row-count deltas
\* are each other's negation, ChecksumChanged is the same, and the modified
\* columns, indexes and foreign keys of one direction are those of the other
\* with Before and After swapped.
C24_ModifiedSymmetric ==
    (Compared /\ UniqueByName(baseline) /\ UniqueByName(target)) =>
        LET reverse == CompareSnapshots(target, baseline) IN
        /\ Names(changeSet.TablesModified) = Names(reverse.TablesModified)
        /\ \A d \in Range(changeSet.TablesModified) :
              \A r \in Range(reverse.TablesModified) :
                  r.Name = d.Name =>
                      /\ Negated(d.RowCountChange, r.RowCountChange)
                      /\ d.ChecksumChanged = r.ChecksumChanged
                      /\ Range(d.ColumnsModified) = Swapped(r.ColumnsModified)
                      /\ Range(d.IndexesModified) = Swapped(r.IndexesModified)
                      /\ Range(d.FKModified) = Swapped(r.FKModified)

\* C24 witness: two snapshots unique by name whose users tables differ in row
\* count, checksum, a column default, an index flag and a foreign key, and
\* whose orders tables differ in row count.
C24_Witness ==
    /\ Compared
    /\ UniqueByName(baseline)
    /\ UniqueByName(target)
    /\ Len(changeSet.TablesModified) > 1
    /\ \E d \in Range(changeSet.TablesModified) :
          /\ d.RowCountChange # << >>
          /\ d.ChecksumChanged
          /\ d.ColumnsModified # << >>
          /\ d.IndexesModified # << >>
          /\ d.FKModified # << >>

\* C29: the three counts of the summary are the lengths of the three
\* collections, and no table name is in more than one collection.
C29_SummaryCounts ==
    Compared =>
        /\ changeSet.Summary.TablesAdded = Len(changeSet.TablesAdded)
        /\ changeSet.Summary.TablesRemoved = Len(changeSet.TablesRemoved)
        /\ changeSet.Summary.TablesModified = Len(changeSet.TablesModified)
        /\ Names(changeSet.TablesAdded) \cap Names(changeSet.TablesRemoved) = {}
        /\ Names(changeSet.TablesAdded) \cap Names(changeSet.TablesModified) = {}
        /\ Names(changeSet.TablesRemoved) \cap Names(changeSet.TablesModified) = {}

\* C29 witness: a change set whose three counts are all positive.
C29_Witness ==
    /\ Compared
    /\ changeSet.Summary.TablesAdded > 0
    /\ changeSet.Summary.TablesRemoved > 0
    /\ changeSet.Summary.TablesModified > 0

\* C30: Summary.HasChanges is true exactly when the change set has an added,
\* a removed or a modified table.
C30_HasChangesFlag ==
    Compared =>
        (changeSet.Summary.HasChanges <=>
            \/ Len(changeSet.TablesAdded) > 0
            \/ Len(changeSet.TablesRemoved) > 0
            \/ Len(changeSet.TablesModified) > 0)

\* C28: within each table of a snapshot decoded from a driver's extraction,
\* no two columns, no two indexes and no two foreign keys carry the same
\* name, also when a foreign key spans several columns.
C28_ExtractedNamesUnique ==
    pc = "extracted" =>
        \A i \in DOMAIN snapshot[1].Tables :
            LET t == snapshot[1].Tables[i]
            IN  /\ UniqueNames(t.Columns)
                /\ UniqueNames(t.Indexes)
                /\ UniqueNames(t.ForeignKeys)

\* What execute hands back when the call returns: a response, for which the
\* caller goes on (or fails decoding its data), or one of its four errors.
ResponseReturned == err'.kind \in {"none", "decode"}

\* The standard output decodes as an envelope whose success member is true.
SuccessEnvelopeWritten ==
    Outcome.stdout.form \in {"null", "object"} /\ Outcome.stdout.success

\* C25: a call returns a response exactly when its subprocess exited with
\* status 0 (which it can only do before the deadline), its standard output
\* decoded as an envelope and the envelope's success member is true.  A
\* non-zero exit fails whatever the standard output holds; the failure
\* reported is the first of timeout, exit status, parse, success flag; and
\* a failed call leaves the caller nothing of a response.
C25_ResponseIffCleanSuccess ==
    [][CallReturns =>
          /\ ResponseReturned <=> (ExitedWith(0) /\ SuccessEnvelopeWritten)
          /\ (proc = "exited" /\ Outcome.exitCode # 0) => ~ResponseReturned
          /\ (~ExitedWith(0) /\ DeadlineExceeded) => err'.kind = "timeout"
          /\ (~ExitedWith(0) /\ ~DeadlineExceeded) => err'.kind = "exec"
          /\ (ExitedWith(0) /\ Outcome.stdout.form \in {"empty", "text"}) =>
                err'.kind = "parse"
          /\ (ExitedWith(0) /\ Outcome.stdout.form \in {"null", "object"}
                /\ ~Outcome.stdout.success) => err'.kind = "driver"
          /\ ~ResponseReturned =>
                (pc' = "failed" /\ pd' = pd /\ handle' = handle /\ snapshot' = snapshot)
          /\ proc = "killed" => elapsed >= driverTimeout]_vars

\* C25 witness: a call has failed on the exit status 1 of a subprocess that
\* wrote a success:true envelope with data.
C25_Witness ==
    /\ xpc = "none"
    /\ pc = "failed"
    /\ calls # << >>
    /\ ExitedWith(1)
    /\ SuccessEnvelopeWritten
    /\ Outcome.stdout.data.form = "object"
    /\ err.kind = "exec"

\* C26: a subprocess is started only by the start of a call and a call
\* starts only when none is in flight, so each call has at most one; a call
\* returns after its subprocess exited, was killed at the deadline or could
\* not be started, and its context is then cancelled or expired; outside a
\* call and after a call's deadline no subprocess is running; and every call
\* in flight returns.
C26_CallLifecycle ==
    /\ [][/\ (proc' = "running" /\ proc # "running") =>
                (xpc = "none" /\ Len(calls') = Len(calls) + 1)
          /\ Len(calls') # Len(calls) =>
                (xpc = "none" /\ xpc' # "none" /\ Len(calls') = Len(calls) + 1)
          /\ CallReturns =>
                /\ proc \in {"exited", "killed", "failed"}
                /\ proc' = proc
                /\ ctx' \in {"cancelled", "expired"}]_vars
    /\ [](xpc = "none" => (proc # "running" /\ ctx # "live"))
    /\ [](elapsed >= driverTimeout => (proc # "running" /\ ctx # "live"))
    /\ ((xpc # "none") ~> (xpc = "none"))

\* C26 witness: the third call of a capture has returned after its
\* subprocess exited, and its context is cancelled.
C26_Witness ==
    /\ Len(calls) = 3
    /\ xpc = "none"
    /\ proc = "exited"
    /\ ctx = "cancelled"

\* What the subprocess of the call of c alone determines as the call's
\* result.
OwnResult(c) ==
    LET call == inflight[c]
        response == executeResult(call.proc, call.elapsed >= driverTimeout, call.outcome)
        decoded == DecodeSnapshot(response.response)
    IN  IF response.err # NoError
        THEN [err |-> response.err, snapshot |-> << >>]
        ELSE IF ~decoded.ok
        THEN [err |-> DecodeError, snapshot |-> << >>]
        ELSE [err |-> NoError, snapshot |-> <<decoded.snapshot>>]

Chosen(given, fromEnv, default) ==
    IF given # << >> THEN given[1]
    ELSE IF fromEnv # << >> THEN fromEnv[1]
    ELSE default

\* The text of a variable that is set, as a valid value.
Text(val) == IF val = "" THEN << >> ELSE <<val>>

\* A variable that is set to a number, which workers wants positive.
Number(val, positive) ==
    IF val = "" \/ Atoi(val) = << >> \/ (positive /\ Atoi(val)[1] <= 0)
    THEN << >> ELSE Atoi(val)

\* A variable that is set to true or false in any case of letters.
Boolean(val) ==
    IF ToLower(val) \in {"true", "false"} THEN <<ToLower(val) = "true">> ELSE << >>

\* C23: every setting a capture sends to the driver is the flag's value when
\* the flag is given, else the environment variable's value when that is set
\* and valid, else the default.
C23_SettingsPrecedence ==
    pc = "configured" =>
        /\ params[1].host = Chosen(argv.host, Text(environ.DB_HOST), "localhost")
        /\ params[1].port = Chosen(argv.port, Number(environ.DB_PORT, FALSE), 3306)
        /\ params[1].user = Chosen(argv.user, Text(environ.DB_USER), "root")
        /\ params[1].password = Chosen(argv.password, Text(environ.DB_PASSWORD), "")
        /\ params[1].database = Chosen(argv.database, Text(environ.DB_NAME), "")
        /\ params[1].workers =
              Chosen(argv.workers, Number(environ.DBC_WORKERS, TRUE), 10)
        /\ params[1].verify_data =
              Chosen(argv.verifyData, Boolean(environ.DBC_VERIFY_DATA), FALSE)
        /\ params[1].verify_row_counts =
              Chosen(argv.verifyCounts, Boolean(environ.DBC_VERIFY_COUNTS), TRUE)

\* C21: for extract_schema every driver opens the connection_string
\* parameter when it is not empty, and otherwise a connection string built
\* from the host, port, user, password and database parameters.
C21_ConnectionStringAuthoritative ==
    pc = "handled" =>
        LET p == request.params IN
        /\ opened.ok
        /\ p.connection_string # << >> => opened.connStr = p.connection_string
        /\ p.connection_string = << >> =>
              {p.host, FormatInt(p.port), p.user, p.password, p.database}
                  \subseteq Range(opened.connStr)

\* The files of the snapshots saved under exactly this key.
SavedUnder(key) == {f \in files : f.data.Key = key}

\* C22: Load returns the most recently captured of the snapshots saved
\* under exactly the key asked for, and the not-found error when none was
\* saved under it, whatever is stored under other keys.
C22_LoadExactKey ==
    pc = "loaded" =>
        LET own == SavedUnder(loaded.key) IN
        IF own = {} THEN loaded.result = NotFound
        ELSE /\ loaded.result.err = ""
             /\ \E f \in own :
                   /\ \A g \in own : g.data.Timestamp <= f.data.Timestamp
                   /\ loaded.result.snapshot = <<f.data>>

====
